---- MODULE Spec2Model ----
(***************************************************************************)
(* The ODBC performance harness (tests/performance/drivers/odbc/app): one  *)
(* process that connects, runs setup statements, warmup and measured       *)
(* iterations of an executor (query or PUT/GET), and persists a CSV and a  *)
(* run-metadata file.  Every driver call is a step whose status the driver *)
(* chooses; strings the code scans are sequences of one-character strings. *)
(***************************************************************************)
EXTENDS Integers, Sequences, FiniteSets, TLC

\* ------------------------------------------------------------------ bounds
MaxWarmup == 1
MaxIter == 2
MaxSetup == 2
MaxRows == 1
MaxDiag == 2
NumProcs == 2
MaxDocLen == 2
MaxEnvLen == 3
MaxValues == 4
MaxDur == 2
MaxResults == 2
MaxNameLen == 2
\* HandleWrapper objects a test has storage for
MaxWrappers == 3
\* handles the driver gives out to one test
MaxHandles == 3

\* ------------------------------------------------------- program constants
\* const std::size_t bulk_size = 1024
bulk_size == 1024

OkStatus == {"SQL_SUCCESS", "SQL_SUCCESS_WITH_INFO"}
\* what a driver call may answer; SQLExecDirect may also answer SQL_NO_DATA
DriverStatus == OkStatus \cup {"SQL_ERROR"}
ExecStatus == DriverStatus \cup {"SQL_NO_DATA"}
\* SQLFreeHandle and SQLDisconnect answer success or an error, nothing else
FreeStatus == {"SQL_SUCCESS", "SQL_ERROR"}
DriverTypes == {"old", "universal"}
Variants == {"main", "fetch", "put_get"}

\* ------------------------------------------------------------ text helpers
Lower == <<"a","b","c","d","e","f","g","h","i","j","k","l","m",
           "n","o","p","q","r","s","t","u","v","w","x","y","z">>
Upper == <<"A","B","C","D","E","F","G","H","I","J","K","L","M",
           "N","O","P","Q","R","S","T","U","V","W","X","Y","Z">>

\* ::toupper on one character
ToUpperChar(c) ==
  IF \E k \in 1..Len(Lower) : Lower[k] = c
  THEN Upper[CHOOSE k \in 1..Len(Lower) : Lower[k] = c]
  ELSE c

\* std::transform(..., ::toupper)
ToUpper(s) == [k \in 1..Len(s) |-> ToUpperChar(s[k])]

\* sub occurs in s at 0-based position p
OccursAt(s, sub, p) ==
  /\ p >= 0
  /\ p + Len(sub) <= Len(s)
  /\ \A k \in 1..Len(sub) : s[p + k] = sub[k]

\* std::string::find: the first 0-based position of sub in s, -1 for npos
Find(s, sub) ==
  IF \E p \in 0..Len(s) : OccursAt(s, sub, p)
  THEN CHOOSE p \in 0..Len(s) :
         /\ OccursAt(s, sub, p)
         /\ \A q \in 0..(p - 1) : ~OccursAt(s, sub, q)
  ELSE -1

\* the regex class \s, over the characters the commands use
IsSpace(c) == c = " "

FilePrefix == <<"f","i","l","e",":","/","/">>

\* a match of file://([^\s]+) starts at 0-based position p
FileRegexMatchesAt(s, p) ==
  /\ OccursAt(s, FilePrefix, p)
  /\ p + Len(FilePrefix) + 1 <= Len(s)
  /\ ~IsSpace(s[p + Len(FilePrefix) + 1])

FileRegexMatches(s) == \E p \in 0..Len(s) : FileRegexMatchesAt(s, p)

\* match[1] of std::regex_search(sql_command, match, file://([^\s]+)): the
\* leftmost match, its group the longest run of non-space characters
FileRegexGroup(s) ==
  LET p == CHOOSE p \in 0..Len(s) :
             /\ FileRegexMatchesAt(s, p)
             /\ \A q \in 0..(p - 1) : ~FileRegexMatchesAt(s, q)
      first == p + Len(FilePrefix) + 1
      last == CHOOSE e \in first..Len(s) :
                /\ \A k \in first..e : ~IsSpace(s[k])
                /\ (e = Len(s) \/ IsSpace(s[e + 1]))
  IN SubSeq(s, first, last)

\* ------------------------------------------------------- local filesystem
\* A path string as the filesystem resolves it: its components, empty ones
\* (a leading, doubled or trailing slash) dropped.
RECURSIVE PathOf(_)
PathOf(s) ==
  IF s = <<>> THEN <<>>
  ELSE IF Head(s) = "/" THEN PathOf(Tail(s))
  ELSE LET stop == IF \E k \in 1..Len(s) : s[k] = "/"
                   THEN (CHOOSE k \in 1..Len(s) :
                           s[k] = "/" /\ \A j \in 1..(k - 1) : s[j] # "/") - 1
                   ELSE Len(s)
       IN <<SubSeq(s, 1, stop)>> \o PathOf(SubSeq(s, stop + 1, Len(s)))

IsPrefix(p, q) == Len(p) <= Len(q) /\ SubSeq(q, 1, Len(p)) = p

\* a filesystem: the directories and the regular files (each tagged with
\* who wrote it) below the root
FsExists(fs, p) == p = <<>> \/ p \in fs.dirs \/ \E f \in fs.files : f.path = p

\* std::filesystem::remove_all
RemoveAll(fs, p) ==
  [dirs |-> {d \in fs.dirs : ~IsPrefix(p, d)},
   files |-> {f \in fs.files : ~IsPrefix(p, f.path)}]

\* std::filesystem::create_directories
CreateDirectories(fs, p) ==
  [dirs |-> fs.dirs \cup {SubSeq(p, 1, k) : k \in 1..Len(p)},
   files |-> fs.files]

\* the command is taken for a GET
LooksLikeGet(sql_command) ==
  LET sql_upper == ToUpper(sql_command)
  IN \/ Find(sql_upper, <<"G","E","T">>) = 0
     \/ Find(sql_upper, <<" ","G","E","T"," ">>) # -1

\* create_get_target_directory, as a function of the filesystem
CreateGetTargetDirectory(fs, sql_command) ==
  IF LooksLikeGet(sql_command) /\ FileRegexMatches(sql_command)
  THEN LET target_path == PathOf(FileRegexGroup(sql_command))
           wiped == IF FsExists(fs, target_path)
                    THEN RemoveAll(fs, target_path) ELSE fs
       IN CreateDirectories(wiped, target_path)
  ELSE fs

\* ------------------------------------------------------------- commands
\* SELECT
SelectCmd ==
  <<"S","E","L","E","C","T">>

\* GET @s file:///d
GetPlain ==
  <<"G","E","T"," ","@","s"," ","f","i","l","e",":","/","/","/","d">>

\* GET @s 'file:///d/'
GetQuoted ==
  <<"G","E","T"," ","@","s"," ","'","f","i","l","e",":","/","/","/","d","/","'">>

\* PUT file:///d/o @s
PutPlain ==
  <<"P","U","T"," ","f","i","l","e",":","/","/","/","d","/","o"," ","@","s">>

\* PUT file:///d/o @s -- get x
PutWithGet ==
  <<"P","U","T"," ","f","i","l","e",":","/","/","/","d","/","o"," ","@","s"," ","-","-"," ","g","e","t"," ","x">>

\* SQL_COMMAND is held by name; CommandText gives its characters
PutGetCommands == {"GetPlain", "GetQuoted", "PutPlain", "PutWithGet"}

CommandText(name) ==
  CASE name = "GetPlain" -> GetPlain
    [] name = "GetQuoted" -> GetQuoted
    [] name = "PutPlain" -> PutPlain
    [] name = "PutWithGet" -> PutWithGet
    [] OTHER -> SelectCmd

\* The driver's reading of a PUT/GET command: its keyword is the first word,
\* and the file:// URI ends at the closing quote when it is written inside
\* quotes, at the next space otherwise.
StmtKeyword(cmd) ==
  LET sp == Find(cmd, <<" ">>)
  IN ToUpper(SubSeq(cmd, 1, IF sp = -1 THEN Len(cmd) ELSE sp))

IsGetCommand(cmd) == StmtKeyword(cmd) = <<"G","E","T">>
IsPutCommand(cmd) == StmtKeyword(cmd) = <<"P","U","T">>

UriText(cmd) ==
  LET p == Find(cmd, FilePrefix)
      first == p + Len(FilePrefix) + 1
      quoted == p >= 1 /\ cmd[p] = "'"
      stops == {k \in first..Len(cmd) :
                  IF quoted THEN cmd[k] = "'" ELSE IsSpace(cmd[k])}
      last == IF stops = {} THEN Len(cmd)
              ELSE (CHOOSE k \in stops : \A j \in stops : k <= j) - 1
  IN SubSeq(cmd, first, last)

\* the local directory (GET) or file (PUT) the command names
NamedPath(cmd) == PathOf(UriText(cmd))

\* the file a successful GET leaves in its target directory
DownloadedFile(cmd, who) ==
  [path |-> NamedPath(cmd) \o << <<"f">> >>, by |-> who]

\* SQLExecDirect of a successful GET, on the local filesystem
DriverGet(fs, cmd, who) ==
  LET made == CreateDirectories(fs, NamedPath(cmd))
      f == DownloadedFile(cmd, who)
  IN [dirs |-> made.dirs,
      files |-> {g \in made.files : g.path # f.path} \cup {f}]

\* who wrote a file that was there before the run started
Earlier == [phase |-> "earlier", i |-> 0]

EmptyFs == [dirs |-> {}, files |-> {}]
DirWithOldFs == [dirs |-> {<< <<"d">> >>},
                 files |-> {[path |-> << <<"d">>, <<"o">> >>, by |-> Earlier]}]
InitialFs == {EmptyFs, DirWithOldFs}

\* ------------------------------------------------------------ configuration
Quote == "\""

\* std::string::find(sub, from): the first 0-based position >= from, -1 for npos
FindFrom(s, sub, from) ==
  IF \E p \in from..Len(s) : OccursAt(s, sub, p)
  THEN CHOOSE p \in from..Len(s) :
         /\ OccursAt(s, sub, p)
         /\ \A q \in from..(p - 1) : ~OccursAt(s, sub, q)
  ELSE -1

\* the character at 0-based position p, "" past the end
CharAt(s, p) == IF p >= 0 /\ p < Len(s) THEN s[p + 1] ELSE ""

\* where \s* stops when it starts at 0-based position p
SkipSpaces(s, p) ==
  IF p >= Len(s) THEN p
  ELSE CHOOSE e \in p..Len(s) :
         /\ \A k \in p..(e - 1) : IsSpace(s[k + 1])
         /\ (e = Len(s) \/ ~IsSpace(s[e + 1]))

\* a match of  "json_key"\s*:\s*"([^"]*)"  starts at 0-based position p
KeyMatchesAt(s, json_key, p) ==
  LET quoted == <<Quote>> \o json_key \o <<Quote>>
      colon == SkipSpaces(s, p + Len(quoted))
      open == SkipSpaces(s, colon + 1)
  IN /\ OccursAt(s, quoted, p)
     /\ CharAt(s, colon) = ":"
     /\ CharAt(s, open) = Quote
     /\ FindFrom(s, <<Quote>>, open + 1) # -1

\* the group of the match that starts at p
KeyMatchGroup(s, json_key, p) ==
  LET colon == SkipSpaces(s, p + Len(json_key) + 2)
      open == SkipSpaces(s, colon + 1)
  IN SubSeq(s, open + 2, FindFrom(s, <<Quote>>, open + 1))

\* std::regex_search for that pattern: whether it matches, and the group of
\* the leftmost match
KeySearch(s, json_key) ==
  LET at == {p \in 0..Len(s) : KeyMatchesAt(s, json_key, p)}
  IN IF at = {} THEN [ok |-> FALSE, group |-> <<>>]
     ELSE [ok |-> TRUE,
           group |-> KeyMatchGroup(s, json_key, CHOOSE p \in at : \A q \in at : p <= q)]

\* key_mappings
KeyMappings ==
  <<[param |-> "account", json_keys |-> <<<<"S","N","O","W","F","L","A","K","E","_","T","E","S","T","_","A","C","C","O","U","N","T">>,
       <<"a","c","c","o","u","n","t">>>>],
    [param |-> "host", json_keys |-> <<<<"S","N","O","W","F","L","A","K","E","_","T","E","S","T","_","H","O","S","T">>,
       <<"h","o","s","t">>>>],
    [param |-> "user", json_keys |-> <<<<"S","N","O","W","F","L","A","K","E","_","T","E","S","T","_","U","S","E","R">>,
       <<"u","s","e","r">>>>],
    [param |-> "database", json_keys |-> <<<<"S","N","O","W","F","L","A","K","E","_","T","E","S","T","_","D","A","T","A","B","A","S","E">>,
       <<"d","a","t","a","b","a","s","e">>>>],
    [param |-> "schema", json_keys |-> <<<<"S","N","O","W","F","L","A","K","E","_","T","E","S","T","_","S","C","H","E","M","A">>,
       <<"s","c","h","e","m","a">>>>],
    [param |-> "warehouse", json_keys |-> <<<<"S","N","O","W","F","L","A","K","E","_","T","E","S","T","_","W","A","R","E","H","O","U","S","E">>,
       <<"w","a","r","e","h","o","u","s","e">>>>],
    [param |-> "role", json_keys |-> <<<<"S","N","O","W","F","L","A","K","E","_","T","E","S","T","_","R","O","L","E">>,
       <<"r","o","l","e">>>>]>>

PrivateKeyName == <<"S","N","O","W","F","L","A","K","E","_","T","E","S","T","_","P","R","I","V","A","T","E","_","K","E","Y","_","C","O","N","T","E","N","T","S">>

\* the inner loop over json_keys: the first key whose pattern matches
FirstKeyFound(s, json_keys) ==
  LET hits == {k \in 1..Len(json_keys) : KeySearch(s, json_keys[k]).ok}
  IN IF hits = {} THEN [ok |-> FALSE, group |-> <<>>]
     ELSE KeySearch(s, json_keys[CHOOSE k \in hits : \A j \in hits : k <= j])

\* the groups of the successive matches of  "([^"]*)"  in s
RECURSIVE QuotedStrings(_)
QuotedStrings(s) ==
  LET open == Find(s, <<Quote>>)
      close == IF open = -1 THEN -1 ELSE FindFrom(s, <<Quote>>, open + 1)
  IN IF close = -1 THEN <<>>
     ELSE <<SubSeq(s, open + 2, close)>> \o QuotedStrings(SubSeq(s, close + 2, Len(s)))

\* private_key += "\n" between the lines
RECURSIVE JoinLines(_)
JoinLines(ls) ==
  IF ls = <<>> THEN <<>>
  ELSE IF Len(ls) = 1 THEN ls[1]
  ELSE ls[1] \o <<"\n">> \o JoinLines(Tail(ls))

\* the private-key part of parse_parameters_json: whether params["private_key"]
\* is set, and to what
PrivateKeyOf(json_str) ==
  LET quoted == <<Quote>> \o PrivateKeyName \o <<Quote>>
      key_start == Find(json_str, quoted)
      array_start == IF key_start = -1 THEN -1 ELSE FindFrom(json_str, <<"[">>, key_start)
      array_end == IF array_start = -1 THEN -1 ELSE FindFrom(json_str, <<"]">>, array_start)
  IN IF key_start # -1 /\ array_start # -1 /\ array_end # -1
     THEN [ok |-> TRUE,
           group |-> JoinLines(QuotedStrings(SubSeq(json_str, array_start + 2, array_end)))]
     ELSE [ok |-> FALSE, group |-> <<>>]

\* parse_parameters_json on the value of PARAMETERS_JSON: the map it returns
ParseParametersJson(json_str) ==
  LET found == {k \in 1..Len(KeyMappings) :
                  FirstKeyFound(json_str, KeyMappings[k].json_keys).ok}
      names == {KeyMappings[k].param : k \in found}
      key == PrivateKeyOf(json_str)
  IN [n \in names \cup (IF key.ok THEN {"private_key"} ELSE {}) |->
        IF n = "private_key" THEN key.group
        ELSE FirstKeyFound(json_str,
               KeyMappings[CHOOSE k \in found : KeyMappings[k].param = n].json_keys).group]

\* params[name] of a std::map: the empty string for a key it does not hold
ParamOf(params, name) == IF name \in DOMAIN params THEN params[name] ELSE <<>>

\* --- get_env_int
Digits == <<"0","1","2","3","4","5","6","7","8","9">>
IsDigit(c) == \E k \in 1..Len(Digits) : Digits[k] = c
DigitValue(c) == (CHOOSE k \in 1..Len(Digits) : Digits[k] = c) - 1

\* int: 32 bits
IntMax == 2147483647
IntMin == -IntMax - 1
Half16 == 65536

\* the digits ds read with sign sgn, as strtol accumulates them: the value
\* while it fits an int (fits), and the low 32 bits of the magnitude in two
\* 16-bit halves
RECURSIVE Accumulate(_, _)
Accumulate(ds, sgn) ==
  IF ds = <<>> THEN [fits |-> TRUE, v |-> 0, hi |-> 0, lo |-> 0]
  ELSE LET a == Accumulate(SubSeq(ds, 1, Len(ds) - 1), sgn)
           d == DigitValue(ds[Len(ds)])
           edge == IntMax \div 10
           fits == /\ a.fits
                   /\ IF sgn = 1
                      THEN a.v < edge \/ (a.v = edge /\ d <= IntMax % 10)
                      ELSE a.v > -edge \/ (a.v = -edge /\ d <= (IntMax % 10) + 1)
           low == a.lo * 10 + d
       IN [fits |-> fits,
           v |-> IF fits THEN a.v * 10 + sgn * d ELSE 0,
           hi |-> (a.hi * 10 + (low \div Half16)) % Half16,
           lo |-> low % Half16]

\* the int whose bits are the two halves
Signed32(hi, lo) ==
  IF hi >= Half16 \div 2 THEN (hi - Half16) * Half16 + lo ELSE hi * Half16 + lo

\* the low 32 bits of the value, as an int
Wrap32(a, sgn) ==
  IF sgn = 1 THEN Signed32(a.hi, a.lo)
  ELSE IF a.lo = 0 THEN Signed32((Half16 - a.hi) % Half16, 0)
  ELSE Signed32(Half16 - 1 - a.hi, Half16 - a.lo)

\* std::atoi: leading white space, an optional sign, then the longest run of
\* digits; anything after it is ignored and no digits at all give 0.  A value
\* that does not fit an int is undefined behaviour: the builds at hand give the
\* low 32 bits or a saturated value.
Atoi(s) ==
  LET start == SkipSpaces(s, 0)
      signed == CharAt(s, start) \in {"+", "-"}
      sgn == IF CharAt(s, start) = "-" THEN -1 ELSE 1
      first == IF signed THEN start + 1 ELSE start
      stop == IF first >= Len(s) THEN first
              ELSE CHOOSE e \in first..Len(s) :
                     /\ \A k \in first..(e - 1) : IsDigit(s[k + 1])
                     /\ (e = Len(s) \/ ~IsDigit(s[e + 1]))
      a == Accumulate(SubSeq(s, first + 1, stop), sgn)
  IN IF a.fits THEN {a.v}
     ELSE {Wrap32(a, sgn), IntMax, IntMin}

\* an environment variable: unset, or set to a string
Unset == [set |-> FALSE, value |-> <<>>]
SetTo(s) == [set |-> TRUE, value |-> s]

\* get_env_int: what it may return
GetEnvInt(var, default_value) ==
  IF var.set THEN Atoi(var.value) ELSE {default_value}

\* --- parse_setup_queries
\* std::string::rfind of one character: the last 0-based position, -1 for npos
RFind(s, c) ==
  LET at == {p \in 0..(Len(s) - 1) : s[p + 1] = c}
  IN IF at = {} THEN -1 ELSE CHOOSE p \in at : \A q \in at : q <= p

NonEmpty(ls) == SelectSeq(ls, LAMBDA q : q # <<>>)

\* parse_setup_queries on SETUP_QUERIES
ParseSetupQueries(var) ==
  IF ~var.set THEN <<>>
  ELSE LET json_str == var.value
           start == Find(json_str, <<"[">>)
           end == RFind(json_str, "]")
           \* substr(start + 1, end - start - 1), the count unsigned
           queries_str == IF end > start
                          THEN SubSeq(json_str, start + 2, end)
                          ELSE SubSeq(json_str, start + 2, Len(json_str))
       IN IF start = -1 \/ end = -1 THEN <<>>
          ELSE NonEmpty(QuotedStrings(queries_str))

\* a SETUP_QUERIES value listing n statements: ["q1","q2",...]
RECURSIVE SetupMembers(_)
SetupMembers(n) ==
  IF n = 0 THEN <<>>
  ELSE SetupMembers(n - 1) \o (IF n > 1 THEN <<",">> ELSE <<>>)
         \o <<Quote, "q", Digits[n + 1], Quote>>

SetupJson(n) == <<"[">> \o SetupMembers(n) \o <<"]">>

\* --- PARAMETERS_JSON values, by their parts
DocParts ==
  [set : BOOLEAN, open : BOOLEAN, close : BOOLEAN,
   account : {"none", "short", "long"}, user : BOOLEAN,
   key : {"none", "lines", "empty"}, password : BOOLEAN, host : BOOLEAN,
   optional : {{}}]

\* the optional parameters besides host, as PARAMETERS_JSON names them
OptionalNames == {"database", "schema", "warehouse", "role"}

\* the member of one of them:  "database":"d"
OptionalMember(name) ==
  IF name = "database" THEN <<"\"","d","a","t","a","b","a","s","e","\"",":","\"","d","\"">>
  ELSE IF name = "schema" THEN <<"\"","s","c","h","e","m","a","\"",":","\"","s","\"">>
  ELSE IF name = "warehouse" THEN <<"\"","w","a","r","e","h","o","u","s","e","\"",":","\"","w","\"">>
  ELSE <<"\"","S","N","O","W","F","L","A","K","E","_","T","E","S","T","_","R","O","L","E","\"",":","\"","r","\"">>

\* the members the parts stand for
DocMembers(d) ==
  (IF d.account = "short" THEN <<<<"\"","a","c","c","o","u","n","t","\"",":","\"","a","\"">>>>
   ELSE IF d.account = "long" THEN <<<<"\"","S","N","O","W","F","L","A","K","E","_","T","E","S","T","_","A","C","C","O","U","N","T","\"",":","\"","a","\"">>>>
   ELSE <<>>)
  \o (IF d.user THEN <<<<"\"","u","s","e","r","\""," ",":"," ","\"","u","\"">>>> ELSE <<>>)
  \o (IF d.key = "lines"
      THEN <<<<"\"","S","N","O","W","F","L","A","K","E","_","T","E","S","T","_","P","R","I","V","A","T","E","_","K","E","Y","_","C","O","N","T","E","N","T","S","\"",":","[","\"","k","\"",",","\"","l","\"","]">>>>
      ELSE IF d.key = "empty"
      THEN <<<<"\"","S","N","O","W","F","L","A","K","E","_","T","E","S","T","_","P","R","I","V","A","T","E","_","K","E","Y","_","C","O","N","T","E","N","T","S","\"",":","[","]">>>>
      ELSE <<>>)
  \o (IF d.password THEN <<<<"\"","p","a","s","s","w","o","r","d","\"",":","\"","p","\"">>>> ELSE <<>>)
  \o (IF d.host THEN <<<<"\"","h","o","s","t","\"",":","\"","h","\"">>>> ELSE <<>>)
  \o (IF "database" \in d.optional THEN <<OptionalMember("database")>> ELSE <<>>)
  \o (IF "schema" \in d.optional THEN <<OptionalMember("schema")>> ELSE <<>>)
  \o (IF "warehouse" \in d.optional THEN <<OptionalMember("warehouse")>> ELSE <<>>)
  \o (IF "role" \in d.optional THEN <<OptionalMember("role")>> ELSE <<>>)

RECURSIVE JoinMembers(_)
JoinMembers(ms) ==
  IF ms = <<>> THEN <<>>
  ELSE IF Len(ms) = 1 THEN ms[1]
  ELSE ms[1] \o <<",">> \o JoinMembers(Tail(ms))

\* the text of the value
DocText(d) ==
  (IF d.open THEN <<"{">> ELSE <<>>) \o JoinMembers(DocMembers(d))
    \o (IF d.close THEN <<"}">> ELSE <<>>)

\* the value is a JSON object: its members are, so its braces decide
IsJsonObject(d) == d.open /\ d.close

FullDoc ==
  [set |-> TRUE, open |-> TRUE, close |-> TRUE, account |-> "short",
   user |-> TRUE, key |-> "lines", password |-> FALSE, host |-> TRUE,
   optional |-> {}]

\* --- get_connection_string
\* account.empty() || user.empty() || private_key.empty()
\* the test without its third operand
RequiredMissingNoKey(params) ==
  \/ ParamOf(params, "account") = <<>>
  \/ ParamOf(params, "user") = <<>>

\* connection.cpp:84
\*   account.empty() || user.empty() || private_key.empty()
RequiredMissing(params) ==
  \/ ParamOf(params, "account") = <<>>
  \/ ParamOf(params, "user") = <<>>
  \/ ParamOf(params, "private_key") = <<>>

\* get_driver_path
DriverPath(driver_type_str) ==
  IF driver_type_str = "old" THEN "/usr/lib/snowflake/odbc/lib/libSnowflake.so"
  ELSE "/usr/lib/libsfodbc.so"

OptionalKeys ==
  <<[k |-> "DATABASE", param |-> "database"], [k |-> "SCHEMA", param |-> "schema"],
    [k |-> "WAREHOUSE", param |-> "warehouse"], [k |-> "ROLE", param |-> "role"]>>

\* the string with the password in place of the key file
ConnectionStringPwd(driver_type_str, params, key_file_path) ==
  <<[k |-> "DRIVER", v |-> DriverPath(driver_type_str)],
    [k |-> "SERVER", v |-> ParamOf(params, "host")],
    [k |-> "ACCOUNT", v |-> ParamOf(params, "account")],
    [k |-> "UID", v |-> ParamOf(params, "user")],
    [k |-> "PWD", v |-> ParamOf(params, "password")]>>

\* the string get_connection_string builds, as its KEY=value; segments
ConnectionString(driver_type_str, params, key_file_path) ==
  <<[k |-> "DRIVER", v |-> DriverPath(driver_type_str)],
    [k |-> "SERVER", v |-> ParamOf(params, "host")],
    [k |-> "ACCOUNT", v |-> ParamOf(params, "account")],
    [k |-> "UID", v |-> ParamOf(params, "user")],
    [k |-> "AUTHENTICATOR", v |-> "SNOWFLAKE_JWT"],
    [k |-> "PRIV_KEY_FILE", v |-> key_file_path]>>
  \o [j \in 1..Len(SelectSeq(OptionalKeys, LAMBDA o : ParamOf(params, o.param) # <<>>)) |->
        LET o == SelectSeq(OptionalKeys, LAMBDA o : ParamOf(params, o.param) # <<>>)[j]
        IN [k |-> o.k, v |-> ParamOf(params, o.param)]]

\* temp_directory_path() / "perf_test_private_key.p8"
KeyFilePath == "/tmp/perf_test_private_key.p8"

\* ------------------------------------------------------------------ state
VARIABLES
  variant,            \* which executor runs: main.cpp's, execute_fetch_test, execute_put_get_test
  use_bulk_fetch,
  sql_command,        \* SQL_COMMAND, by name
  warmup_iterations,
  iterations,
  setup_queries,      \* the setup statements, numbered
  driver_type,
  pc,                 \* the process's position
  phase,              \* "connect", "version", "setup", "warmup", "measure", "persist", "cleanup"
  i,                  \* the loop index of the running loop
  ret,                \* the status of the last driver call
  last_call,          \* that call: the function that made it and its name
  ret_checked,        \* whether that status has been examined
  cont,               \* where check_odbc_error returns to
  stmt,               \* the current statement handle: "null", "allocated", "freed"
  remaining,          \* rows of the result set not fetched yet
  result,             \* the record the executor is filling
  results,            \* run_test_iterations' vector
  executor_calls,     \* executor invocations per phase
  warmup_indices,     \* the iteration arguments of the warmup calls
  warmup_made_call,   \* run_warmup has made a driver call
  driver_version,
  server_version,
  rec_num,            \* check_odbc_error's record number
  diag_avail,         \* diagnostic records the driver holds for the handle
  diag_ret,           \* the status of the last SQLGetDiagRec
  printed,            \* the record numbers printed
  exit_code,          \* -1 while running
  csv,                \* the results file
  meta,               \* the run-metadata file of each driver type
  meta0,              \* meta as the run found it
  fs,                 \* the local filesystem PUT/GET works on
  fs_before,          \* fs on entry to the last create_get_target_directory
  fs_at_exec,         \* fs when the executor's last SQLExecDirect was issued
  mproc,              \* harness processes inside write_run_metadata_json
  first_writer,       \* per metadata path, the process whose document reached it first
  env,                \* the environment variables the process reads
  params,             \* the map main gets from parse_parameters_json
  conn_string,        \* the string create_connection gets from get_connection_string
  key_file,           \* the file write_private_key_to_file writes
  now,                \* the run's timestamp, 0 until it is taken
  filename,           \* the results path
  completion,         \* the path the completion line names, empty until it is printed
  values,             \* a vector of durations a caller holds
  stats,              \* what calculate_stats returned to it
  summary,            \* the figures print_statistics computed from it
  setup_executed,     \* the statements execute_setup_queries has handed to SQLExecDirect
  fetch_calls,        \* the SQLFetch calls of the running executor, by what they returned
  connects,           \* the SQLDriverConnect calls made
  call_failed,        \* some driver call has not succeeded
  open_stmts,         \* the statement handles allocated and not freed, counted
                      \* while every driver call has succeeded (0 from then on)
  kproc,              \* harness processes staging their private key and connecting
  tpc,                \* the position of a test of the ODBC test suite
  tret,               \* the status of that test's last driver call
  wrappers,           \* the HandleWrapper objects: alive or not, the handle held
  handles,            \* the handles SQLAllocHandle has given out, in order
  recNumber,          \* get_diag_rec's record number
  records,            \* get_diag_rec's vector
  drv_diag,           \* the diagnostic records the driver holds for the handle
  locals,             \* the objects a test declared after its Connection, in order:
                      \* 0 for a Schema, else the storage of a statement wrapper
  thrown              \* an exception is leaving the test

vars ==
  <<variant, use_bulk_fetch, sql_command, warmup_iterations, iterations,
    setup_queries, driver_type, pc, phase, i, ret, last_call, ret_checked,
    cont, stmt, remaining, result, results, executor_calls,
    warmup_indices, warmup_made_call, driver_version, server_version, rec_num, diag_avail, diag_ret,
    printed, exit_code, csv, meta, meta0, fs, fs_before, fs_at_exec,
    mproc, first_writer, env, params, conn_string, key_file,
    now, filename, completion, values, stats, summary, setup_executed, fetch_calls,
    connects, call_failed, open_stmts, kproc, tpc, tret, wrappers, handles,
    recNumber, records, drv_diag, locals, thrown>>

NoCall == [fn |-> "none", call |-> "none", how |-> "none"]
\* no SQLFetch yet
NoFetches == [ok |-> 0, no_data |-> 0]
RunPhases == {"setup", "warmup", "measure"}

\* a file: whether it exists and, cell by cell, who wrote its content
\* a file: whether it exists, whether this user may open it for reading,
\* its content
\* no TimingStats yet
NoStats == [median |-> -1, min |-> -1, max |-> -1]
NoSummary == [query |-> NoStats, fetch |-> NoStats]

AbsentFile == [exists |-> FALSE, readable |-> FALSE, data |-> <<>>]
FileOf(content) == [exists |-> TRUE, readable |-> TRUE, data |-> content]
UnreadableFileOf(content) == [exists |-> TRUE, readable |-> FALSE, data |-> content]
\* the run-metadata document a process writes: len cells, all its own
MetaDocument(who, len) == [k \in 1..len |-> who]

\* the harness processes that may be inside write_run_metadata_json
Procs == 1..NumProcs
IdleProc == [pc |-> "idle", type |-> "none", len |-> 0, order |-> 0,
             outcome |-> "none", seen |-> AbsentFile]

\* the record numbered by the ordinal of the call instead of the loop index
NewResultByCall(iteration, call) ==
  [iteration |-> call, timestamp |-> 0, query_time_s |-> 0, fetch_time_s |-> 0,
   row_count |-> 0, call |-> call]

\* TestResult / PutGetResult with result.iteration = iteration; call is the
\* ordinal of the executor invocation that produced it.  timestamp is in
\* seconds, the two durations in microseconds.
NewResult(iteration, call) ==
  [iteration |-> iteration, timestamp |-> 0, query_time_s |-> 0, fetch_time_s |-> 0,
   row_count |-> 0, call |-> call]

\* that test written  i < n
LoopCondStrict(k, n) == k < n

\* the test of the warmup and measured loops,  i <= n
LoopCond(k, n) == k <= n

\* the environment of a run that gets through its configuration
GoodEnv ==
  [TEST_NAME |-> SetTo(<<"t">>), SQL_COMMAND |-> SetTo(<<"q">>),
   PERF_ITERATIONS |-> Unset, PERF_WARMUP_ITERATIONS |-> Unset,
   PARAMETERS_JSON |-> FullDoc, SETUP_QUERIES |-> Unset]

\* PARAMETERS_JSON of main's runs: complete, unset, or short of one part
MainDocs ==
  {FullDoc, [FullDoc EXCEPT !.set = FALSE], [FullDoc EXCEPT !.account = "none"],
   [FullDoc EXCEPT !.user = FALSE], [FullDoc EXCEPT !.key = "none"],
   [FullDoc EXCEPT !.key = "none", !.password = TRUE]}

\* the environments main is run in: PERF_ITERATIONS unset, a count above 1
\* or not a number; PERF_WARMUP_ITERATIONS unset or a count; SETUP_QUERIES
\* unset or a list, a list going with the default counts
MainEnvs ==
  {e \in [TEST_NAME : {Unset, SetTo(<<"t">>)},
          SQL_COMMAND : {Unset, SetTo(<<"q">>)},
          PERF_ITERATIONS : {Unset, SetTo(<<"x">>)}
                              \cup {SetTo(<<Digits[n + 1]>>) : n \in 2..MaxIter},
          PERF_WARMUP_ITERATIONS :
            {Unset} \cup {SetTo(<<Digits[n + 1]>>) : n \in 1..MaxWarmup},
          PARAMETERS_JSON : MainDocs,
          SETUP_QUERIES : {Unset} \cup {SetTo(SetupJson(n)) : n \in 1..MaxSetup}] :
     e.SETUP_QUERIES.set => ~e.PERF_ITERATIONS.set /\ ~e.PERF_WARMUP_ITERATIONS.set}

\* SQL_NULL_HANDLE
NullHandle == 0

\* the storage a test has for HandleWrapper objects
WrapperIds == 1..MaxWrappers

\* storage holding no HandleWrapper object
NoWrapper == [alive |-> FALSE, handle |-> NullHandle, type |-> "none"]

\* a harness process that has not reached get_connection_string
IdleKeyProc == [pc |-> "idle", key |-> <<>>, seen |-> <<>>]

\* no test of the test suite is running
SuiteIdle ==
  /\ tpc = "none"
  /\ tret = "none"
  /\ wrappers = [w \in WrapperIds |-> NoWrapper]
  /\ handles = <<>>
  /\ recNumber = 0
  /\ records = <<>>
  /\ drv_diag = <<>>
  /\ locals = <<>>
  /\ thrown = FALSE

\* no second harness process is staging a key
KeyIdle == kproc = [p \in Procs |-> IdleKeyProc]

\* main() runs from its first line and passes use_bulk_fetch = false;
\* execute_fetch_test and
\* execute_put_get_test are handed an open connection, the counts and the
\* two version strings, and start at their warmup.
InitFrom(envs) ==
  /\ variant \in Variants
  /\ use_bulk_fetch \in (IF variant = "fetch" THEN BOOLEAN ELSE {FALSE})
  /\ sql_command \in (IF variant = "put_get" THEN PutGetCommands ELSE {"Select"})
  /\ env \in (IF variant = "main" THEN envs ELSE {GoodEnv})
  /\ warmup_iterations \in (IF variant = "main" THEN {0} ELSE 0..MaxWarmup)
  /\ iterations \in (IF variant = "main" THEN {0} ELSE 0..MaxIter)
  /\ setup_queries = <<>>
  /\ setup_executed = <<>>
  /\ fetch_calls = NoFetches
  /\ connects = 0
  /\ call_failed = FALSE
  /\ open_stmts = 0
  /\ params = <<>>
  /\ conn_string = <<>>
  /\ key_file = AbsentFile
  /\ now = 0
  /\ filename = <<>>
  /\ completion = <<>>
  /\ values = <<>>
  /\ stats = NoStats
  /\ summary = NoSummary
  /\ driver_type \in DriverTypes
  /\ pc = IF variant = "main" THEN "get_test_name" ELSE "run_warmup"
  /\ phase = "connect"
  /\ i = 0
  /\ ret = "SQL_SUCCESS"
  /\ last_call = NoCall
  /\ ret_checked = TRUE
  /\ cont = "none"
  /\ stmt = "null"
  /\ remaining = 0
  /\ result = NewResult(0, 0)
  /\ results = <<>>
  /\ executor_calls = [warmup |-> 0, measure |-> 0]
  /\ warmup_indices = <<>>
  /\ warmup_made_call = FALSE
  /\ driver_version = (IF variant = "main" THEN "UNKNOWN" ELSE "version")
  /\ server_version = (IF variant = "main" THEN "UNKNOWN" ELSE "version")
  /\ rec_num = 0
  /\ diag_avail = 0
  /\ diag_ret = "none"
  /\ printed = <<>>
  /\ exit_code = -1
  /\ csv = AbsentFile
  /\ meta \in {[t \in DriverTypes |-> IF t = driver_type THEN f ELSE AbsentFile] :
                 f \in {AbsentFile, FileOf(MetaDocument(0, 1))}}
  /\ meta0 = meta
  /\ fs \in (IF variant = "put_get" THEN InitialFs ELSE {EmptyFs})
  /\ fs_before = fs
  /\ fs_at_exec = fs
  /\ mproc = [p \in Procs |-> IdleProc]
  /\ first_writer = [t \in DriverTypes |-> 0]
  /\ SuiteIdle
  /\ KeyIdle

Init == InitFrom(MainEnvs)

\* what no step of the harness process changes
\* the vector a caller of calculate_stats or print_statistics holds, and
\* what the two gave
statV == <<values, stats, summary>>
\* the state of a test of the ODBC test suite
scopeV == <<locals, thrown>>
suiteV == <<tpc, tret, wrappers, handles, recNumber, records, drv_diag, scopeV>>
envV ==
  <<variant, use_bulk_fetch, sql_command, driver_type, env, mproc, first_writer, statV,
    kproc, suiteV>>
\* what only the configuration steps set
cfgV == <<warmup_iterations, iterations, setup_queries, params, conn_string, key_file>>
inputV == <<envV, cfgV>>
callV ==
  <<ret, last_call, ret_checked, warmup_made_call, connects, call_failed>>
diagV == <<rec_num, diag_avail, diag_ret, printed>>
fileV == <<csv, meta, meta0, now, filename, completion>>
fsV == <<fs, fs_before, fs_at_exec>>
iterV ==
  <<result, results, executor_calls, warmup_indices, setup_executed, fetch_calls>>
verV == <<driver_version, server_version>>
stmtV == <<stmt, open_stmts>>

Min(a, b) == IF a <= b THEN a ELSE b

\* ------------------------------------------------------------ driver calls
\* The bookkeeping of one driver call returning status.  how says what the
\* caller does with the status: "check" passes it to check_odbc_error,
\* "inline" examines it in an if/while of its own, "discarded" drops it.
\* the call did not succeed; SQL_NO_DATA is how SQLFetch says the result set
\* has been read to its end
Unsuccessful(call, status) ==
  status \notin OkStatus /\ ~(call = "SQLFetch" /\ status = "SQL_NO_DATA")

Issue(fn, call, status, how) ==
  /\ ret' = status
  /\ last_call' = [fn |-> fn, call |-> call, how |-> how]
  /\ ret_checked' = (how = "inline")
  /\ warmup_made_call' = (warmup_made_call \/ phase = "warmup")
  /\ connects' = connects + (IF call = "SQLDriverConnect" THEN 1 ELSE 0)
  /\ call_failed' = (call_failed \/ Unsuccessful(call, status))

\* ret = F(...); check_odbc_error(ret, ...); then on to next
CallChecked(fn, call, status, next) ==
  /\ Issue(fn, call, status, "check")
  /\ pc' = "check"
  /\ cont' = next

\* SQLAllocHandle(SQL_HANDLE_STMT, ...) leaves a handle when it succeeds
AllocStmt(status) ==
  /\ stmt' = IF status \in OkStatus THEN "allocated" ELSE "null"
  /\ open_stmts' = IF call_failed' THEN 0 ELSE open_stmts + 1

\* the handle dropped without being released
FreeStmtLeaked(status) ==
  /\ stmt' = "freed"
  /\ open_stmts' = IF call_failed' THEN 0 ELSE open_stmts

\* SQLFreeHandle(SQL_HANDLE_STMT, stmt) has been called on the handle
FreeStmt(status) ==
  /\ stmt' = "freed"
  /\ open_stmts' = IF call_failed' THEN 0
                   ELSE open_stmts - (IF stmt = "allocated" THEN 1 ELSE 0)

\* --------------------------------------------------------- check_odbc_error
\* the test without its second half
CheckFailedNoInfo(r) == r # "SQL_SUCCESS"

\* the test written against SQL_ERROR alone
CheckFailedErrorOnly(r) == r = "SQL_ERROR"

\* if (ret != SQL_SUCCESS && ret != SQL_SUCCESS_WITH_INFO)
CheckFailed(r) == r # "SQL_SUCCESS" /\ r # "SQL_SUCCESS_WITH_INFO"

CheckOdbcError ==
  /\ pc = "check"
  /\ ret_checked' = TRUE
  /\ IF CheckFailed(ret)
     THEN /\ pc' = "diag"
          /\ rec_num' = 1
          /\ printed' = <<>>
          /\ diag_avail' \in 0..MaxDiag
          /\ diag_ret' = "none"
     ELSE /\ pc' = cont
          /\ UNCHANGED diagV
  /\ UNCHANGED <<inputV, phase, i, ret, last_call, warmup_made_call, connects,
                 call_failed,
                 cont, stmtV, remaining, iterV, verV,
                 exit_code, fileV, fsV>>

\* what the driver may answer to SQLGetDiagRec for record n of k
DiagAnswers(n, k) ==
  (IF n <= k THEN OkStatus ELSE {"SQL_NO_DATA"})
    \cup {"SQL_ERROR"}

\* the loop leaving after its first round, whatever the answer
GetDiagRecOnce ==
  /\ pc = "diag"
  /\ \E d \in DiagAnswers(rec_num, diag_avail) :
       /\ diag_ret' = d
       /\ IF d = "SQL_SUCCESS" \/ d = "SQL_SUCCESS_WITH_INFO"
          THEN /\ printed' = Append(printed, rec_num)
               /\ rec_num' = rec_num + 1
          ELSE UNCHANGED <<printed, rec_num>>
       /\ pc' = "exited"
       /\ exit_code' = 1
  /\ UNCHANGED <<inputV, phase, i, callV, cont, stmtV, remaining, iterV, verV,
                 diag_avail, fileV, fsV>>

\* one round of the while (true) loop; leaving the loop reaches exit(1)
GetDiagRec ==
  /\ pc = "diag"
  /\ \E d \in DiagAnswers(rec_num, diag_avail) :
       /\ diag_ret' = d
       /\ IF d = "SQL_SUCCESS" \/ d = "SQL_SUCCESS_WITH_INFO"
          THEN /\ printed' = Append(printed, rec_num)
               /\ rec_num' = rec_num + 1
               /\ UNCHANGED <<pc, exit_code>>
          ELSE /\ pc' = "exited"
               /\ exit_code' = 1
               /\ UNCHANGED <<printed, rec_num>>
  /\ UNCHANGED <<inputV, phase, i, callV, cont, stmtV, remaining, iterV, verV,
                 diag_avail, fileV, fsV>>

\* ------------------------------------------------------------ configuration
\* what the configuration steps leave alone besides envV
runV ==
  <<phase, i, callV, cont, stmtV, remaining, iterV, verV, diagV, fileV, fsV>>

\* exit(1) of a configuration step
ConfigExit ==
  /\ pc' = "exited"
  /\ exit_code' = 1

\* main: get_env_required("TEST_NAME")
GetTestName ==
  /\ pc = "get_test_name"
  /\ IF env.TEST_NAME.set
     THEN pc' = "get_sql_command" /\ exit_code' = exit_code
     ELSE ConfigExit
  /\ UNCHANGED <<envV, cfgV, runV>>

\* main: get_env_required("SQL_COMMAND")
GetSqlCommand ==
  /\ pc = "get_sql_command"
  /\ IF env.SQL_COMMAND.set
     THEN pc' = "get_env_ints" /\ exit_code' = exit_code
     ELSE ConfigExit
  /\ UNCHANGED <<envV, cfgV, runV>>

\* main: get_env_int("PERF_ITERATIONS", 1), get_env_int("PERF_WARMUP_ITERATIONS", 0)
GetEnvInts ==
  /\ pc = "get_env_ints"
  /\ iterations' \in GetEnvInt(env.PERF_ITERATIONS, 1)
  /\ warmup_iterations' \in GetEnvInt(env.PERF_WARMUP_ITERATIONS, 0)
  /\ pc' = "parse_parameters_json"
  /\ UNCHANGED <<envV, setup_queries, params, conn_string, key_file, exit_code, runV>>

\* main: parse_parameters_json()
ParseParameters ==
  /\ pc = "parse_parameters_json"
  /\ IF ~env.PARAMETERS_JSON.set
     THEN ConfigExit /\ params' = params
     ELSE /\ params' = ParseParametersJson(DocText(env.PARAMETERS_JSON))
          /\ pc' = "parse_setup_queries"
          /\ exit_code' = exit_code
  /\ UNCHANGED <<envV, warmup_iterations, iterations, setup_queries, conn_string,
                 key_file, runV>>

\* main: parse_setup_queries()
ParseSetup ==
  /\ pc = "parse_setup_queries"
  /\ setup_queries' = ParseSetupQueries(env.SETUP_QUERIES)
  /\ pc' = "create_environment"
  /\ UNCHANGED <<envV, warmup_iterations, iterations, params, conn_string, key_file,
                 exit_code, runV>>

\* create_connection: get_connection_string(), which parses PARAMETERS_JSON
\* again, exits when a required parameter is empty, and writes the private
\* key to its file (exiting when the file cannot be opened)
GetConnectionString ==
  /\ pc = "get_connection_string"
  /\ IF ~env.PARAMETERS_JSON.set
     THEN ConfigExit /\ UNCHANGED <<conn_string, key_file>>
     ELSE \E p \in {ParseParametersJson(DocText(env.PARAMETERS_JSON))} :
             IF RequiredMissing(p)
             THEN ConfigExit /\ UNCHANGED <<conn_string, key_file>>
             ELSE \E opened \in BOOLEAN :
                    IF opened
                    THEN /\ key_file' = FileOf(ParamOf(p, "private_key"))
                         /\ conn_string' = ConnectionString(driver_type, p, KeyFilePath)
                         /\ pc' = "driver_connect"
                         /\ exit_code' = exit_code
                    ELSE ConfigExit /\ UNCHANGED <<conn_string, key_file>>
  /\ UNCHANGED <<envV, warmup_iterations, iterations, setup_queries, params, runV>>

\* ------------------------------------------------ environment, connection
\* create_environment: SQLAllocHandle(SQL_HANDLE_ENV)
CreateEnvironment ==
  /\ pc = "create_environment"
  /\ \E st \in DriverStatus :
       CallChecked("create_environment", "SQLAllocHandle", st, "set_env_attr")
  /\ UNCHANGED <<inputV, phase, i, stmtV, remaining, iterV, verV, diagV,
                 exit_code, fileV, fsV>>

\* create_environment: SQLSetEnvAttr
SetEnvAttr ==
  /\ pc = "set_env_attr"
  /\ \E st \in DriverStatus :
       CallChecked("create_environment", "SQLSetEnvAttr", st, "alloc_dbc")
  /\ UNCHANGED <<inputV, phase, i, stmtV, remaining, iterV, verV, diagV,
                 exit_code, fileV, fsV>>

\* create_connection: SQLAllocHandle(SQL_HANDLE_DBC)
AllocDbc ==
  /\ pc = "alloc_dbc"
  /\ \E st \in DriverStatus :
       CallChecked("create_connection", "SQLAllocHandle", st, "get_connection_string")
  /\ UNCHANGED <<inputV, phase, i, stmtV, remaining, iterV, verV, diagV,
                 exit_code, fileV, fsV>>

\* create_connection: SQLDriverConnect
DriverConnect ==
  /\ pc = "driver_connect"
  /\ \E st \in DriverStatus :
       CallChecked("create_connection", "SQLDriverConnect", st, "get_driver_version")
  /\ UNCHANGED <<inputV, phase, i, stmtV, remaining, iterV, verV, diagV,
                 exit_code, fileV, fsV>>

\* ---------------------------------------------------------------- versions
GetDriverVersion ==
  /\ pc = "get_driver_version"
  /\ \E st \in DriverStatus :
       /\ Issue("get_driver_version", "SQLGetInfo", st, "inline")
       /\ driver_version' = IF st \in OkStatus THEN "version" ELSE "UNKNOWN"
  /\ phase' = "version"
  /\ pc' = "srv_alloc"
  /\ UNCHANGED <<inputV, i, cont, stmtV, remaining, iterV, server_version,
                 diagV, exit_code, fileV, fsV>>

\* get_server_version: SQLAllocHandle(SQL_HANDLE_STMT)
ServerVersionAlloc ==
  /\ pc = "srv_alloc"
  /\ \E st \in DriverStatus :
       /\ Issue("get_server_version", "SQLAllocHandle", st, "inline")
       /\ AllocStmt(st)
       /\ pc' = IF st \in OkStatus THEN "srv_exec" ELSE "execute_setup_queries"
  /\ UNCHANGED <<inputV, phase, i, cont, remaining, iterV, verV, diagV,
                 exit_code, fileV, fsV>>

\* get_server_version: SQLExecDirect
ServerVersionExec ==
  /\ pc = "srv_exec"
  /\ \E st \in DriverStatus :
       /\ Issue("get_server_version", "SQLExecDirect", st, "inline")
       /\ pc' = IF st \in OkStatus THEN "srv_fetch" ELSE "srv_free"
  /\ UNCHANGED <<inputV, phase, i, cont, stmtV, remaining, iterV, verV, diagV,
                 exit_code, fileV, fsV>>

\* the fetch handed to check_odbc_error
ServerVersionFetchChecked ==
  /\ pc = "srv_fetch"
  /\ \E st \in DriverStatus :
       CallChecked("get_server_version", "SQLFetch", st, "srv_getdata")
  /\ UNCHANGED <<inputV, phase, i, stmtV, remaining, iterV, verV, diagV,
                 exit_code, fileV, fsV>>

\* get_server_version: SQLFetch
ServerVersionFetch ==
  /\ pc = "srv_fetch"
  /\ \E st \in DriverStatus :
       /\ Issue("get_server_version", "SQLFetch", st, "inline")
       /\ pc' = IF st \in OkStatus THEN "srv_getdata" ELSE "srv_free"
  /\ UNCHANGED <<inputV, phase, i, cont, stmtV, remaining, iterV, verV, diagV,
                 exit_code, fileV, fsV>>

\* get_server_version: SQLGetData
ServerVersionGetData ==
  /\ pc = "srv_getdata"
  /\ \E st \in DriverStatus :
       /\ Issue("get_server_version", "SQLGetData", st, "inline")
       /\ server_version' = IF st \in OkStatus THEN "version" ELSE server_version
  /\ pc' = "srv_free"
  /\ UNCHANGED <<inputV, phase, i, cont, stmtV, remaining, iterV,
                 driver_version, diagV, exit_code, fileV, fsV>>

\* get_server_version: SQLFreeHandle, return
ServerVersionFree ==
  /\ pc = "srv_free"
  /\ \E st \in FreeStatus :
       /\ Issue("get_server_version", "SQLFreeHandle", st, "discarded")
       /\ FreeStmt(st)
  /\ pc' = "execute_setup_queries"
  /\ UNCHANGED <<inputV, phase, i, cont, remaining, iterV, verV, diagV,
                 exit_code, fileV, fsV>>

\* ------------------------------------------------------------ setup queries
\* the loop started at its second statement
ExecuteSetupQueriesFromOne ==
  /\ pc = "execute_setup_queries"
  /\ phase' = "setup"
  /\ i' = 1
  /\ pc' = IF setup_queries = <<>> THEN "run_warmup" ELSE "setup_loop"
  /\ UNCHANGED <<inputV, callV, cont, stmtV, remaining, iterV, verV, diagV,
                 exit_code, fileV, fsV>>

\* execute_setup_queries: the empty() test and the loop's start
ExecuteSetupQueries ==
  /\ pc = "execute_setup_queries"
  /\ phase' = "setup"
  /\ i' = 0
  /\ pc' = IF setup_queries = <<>> THEN "run_warmup" ELSE "setup_loop"
  /\ UNCHANGED <<inputV, callV, cont, stmtV, remaining, iterV, verV, diagV,
                 exit_code, fileV, fsV>>

\* for (size_t i = 0; i < setup_queries.size(); i++)
SetupLoop ==
  /\ pc = "setup_loop"
  /\ pc' = IF i < Len(setup_queries) THEN "setup_alloc" ELSE "run_warmup"
  /\ UNCHANGED <<inputV, phase, i, callV, cont, stmtV, remaining, iterV, verV,
                 diagV, exit_code, fileV, fsV>>

SetupAlloc ==
  /\ pc = "setup_alloc"
  /\ \E st \in DriverStatus :
       /\ CallChecked("execute_setup_queries", "SQLAllocHandle", st, "setup_exec")
       /\ AllocStmt(st)
  /\ UNCHANGED <<inputV, phase, i, remaining, iterV, verV, diagV, exit_code,
                 fileV, fsV>>

\* SQLExecDirect(stmt, setup_queries[i].c_str(), SQL_NTS)
SetupExec ==
  /\ pc = "setup_exec"
  /\ \E st \in DriverStatus :
       CallChecked("execute_setup_queries", "SQLExecDirect", st, "setup_free")
  /\ setup_executed' = Append(setup_executed, setup_queries[i + 1])
  /\ UNCHANGED <<inputV, phase, i, stmtV, remaining, result, results, executor_calls,
                 warmup_indices, fetch_calls, verV, diagV, exit_code, fileV, fsV>>

SetupFree ==
  /\ pc = "setup_free"
  /\ \E st \in FreeStatus :
       /\ Issue("execute_setup_queries", "SQLFreeHandle", st, "discarded")
       /\ FreeStmt(st)
  /\ i' = i + 1
  /\ pc' = "setup_loop"
  /\ UNCHANGED <<inputV, phase, cont, remaining, iterV, verV, diagV, exit_code,
                 fileV, fsV>>

\* ------------------------------------------------------ warmup and iterations
\* run_warmup / run_warmup_put_get: the early return and the loop's start
RunWarmup ==
  /\ pc = "run_warmup"
  /\ phase' = "warmup"
  /\ i' = 1
  /\ pc' = IF warmup_iterations = 0 THEN "run_test_iterations" ELSE "warmup_loop"
  /\ UNCHANGED <<inputV, callV, cont, stmtV, remaining, iterV, verV, diagV,
                 exit_code, fileV, fsV>>

WarmupLoop ==
  /\ pc = "warmup_loop"
  /\ pc' = IF LoopCond(i, warmup_iterations) THEN "executor" ELSE "run_test_iterations"
  /\ UNCHANGED <<inputV, phase, i, callV, cont, stmtV, remaining, iterV, verV,
                 diagV, exit_code, fileV, fsV>>

\* run_test_iterations / run_test_iterations_put_get: the vector, the loop's start
RunTestIterations ==
  /\ pc = "run_test_iterations"
  /\ phase' = "measure"
  /\ i' = 1
  /\ results' = <<>>
  /\ pc' = "measure_loop"
  /\ UNCHANGED <<inputV, callV, cont, stmtV, remaining, result, executor_calls,
                 warmup_indices, setup_executed, fetch_calls, verV, diagV, exit_code,
                 fileV, fsV>>

MeasureLoop ==
  /\ pc = "measure_loop"
  /\ IF LoopCond(i, iterations)
     THEN pc' = "executor" /\ phase' = phase
     ELSE pc' = "write_csv" /\ phase' = "persist"
  /\ UNCHANGED <<inputV, i, callV, cont, stmtV, remaining, iterV, verV, diagV,
                 exit_code, fileV, fsV>>

ExecutorFn == IF variant = "put_get" THEN "run_put_get_query" ELSE "run_query"

\* run_query / run_put_get_query entered with iteration = i: the result
\* record, and for PUT/GET create_get_target_directory
ExecutorBegin ==
  /\ pc = "executor"
  /\ result' = NewResult(i, executor_calls.warmup + executor_calls.measure + 1)
  /\ fetch_calls' = NoFetches
  /\ executor_calls' = [executor_calls EXCEPT ![phase] = @ + 1]
  /\ warmup_indices' =
       IF phase = "warmup" THEN Append(warmup_indices, i) ELSE warmup_indices
  /\ IF variant = "put_get"
     THEN /\ fs_before' = fs
          /\ fs' = CreateGetTargetDirectory(fs, CommandText(sql_command))
     ELSE UNCHANGED <<fs, fs_before>>
  /\ pc' = "stmt_alloc"
  /\ UNCHANGED <<inputV, phase, i, callV, cont, stmtV, remaining, results,
                 setup_executed, verV, diagV, exit_code, fileV, fs_at_exec>>

StmtAlloc ==
  /\ pc = "stmt_alloc"
  /\ \E st \in DriverStatus :
       /\ CallChecked(ExecutorFn, "SQLAllocHandle", st, "stmt_exec")
       /\ AllocStmt(st)
  /\ UNCHANGED <<inputV, phase, i, remaining, iterV, verV, diagV, exit_code,
                 fileV, fsV>>

\* where the executor goes after a successful SQLExecDirect
AfterExec ==
  IF variant = "put_get" THEN "stmt_free"
  ELSE IF use_bulk_fetch THEN "set_stmt_attr" ELSE "fetch"

StmtExec ==
  /\ pc = "stmt_exec"
  /\ fs_at_exec' = fs
  /\ \E st \in ExecStatus :
       /\ CallChecked(ExecutorFn, "SQLExecDirect", st, AfterExec)
       /\ fs' = IF /\ variant = "put_get" /\ st \in OkStatus
                   /\ IsGetCommand(CommandText(sql_command))
                THEN DriverGet(fs, CommandText(sql_command),
                               [phase |-> phase, i |-> i])
                ELSE fs
       /\ IF variant # "put_get" /\ st \in OkStatus
          THEN remaining' \in 0..MaxRows
          ELSE remaining' = 0
  /\ UNCHANGED <<inputV, phase, i, stmtV, iterV, verV, diagV, exit_code,
                 fileV, fs_before>>

SetStmtAttr ==
  /\ pc = "set_stmt_attr"
  /\ \E st \in DriverStatus :
       CallChecked(ExecutorFn, "SQLSetStmtAttr", st, "fetch")
  /\ UNCHANGED <<inputV, phase, i, stmtV, remaining, iterV, verV, diagV,
                 exit_code, fileV, fsV>>

\* rows one successful SQLFetch delivers
RowsPerFetch == IF use_bulk_fetch THEN bulk_size ELSE 1

\* what the driver may answer to SQLFetch
FetchAnswers ==
  (IF remaining > 0 THEN OkStatus ELSE {"SQL_NO_DATA"}) \cup {"SQL_ERROR"}

\* while ((ret = SQLFetch(stmt)) != SQL_NO_DATA) { check_odbc_error(...)
Fetch ==
  /\ pc = "fetch"
  /\ \E st \in FetchAnswers :
       /\ IF st = "SQL_NO_DATA"
          THEN /\ Issue(ExecutorFn, "SQLFetch", st, "inline")
               /\ pc' = "stmt_free"
               /\ cont' = cont
          ELSE CallChecked(ExecutorFn, "SQLFetch", st, "fetch_count")
       /\ remaining' = IF st \in OkStatus
                       THEN remaining - Min(RowsPerFetch, remaining)
                       ELSE remaining
       /\ fetch_calls' = IF st \in OkStatus THEN [fetch_calls EXCEPT !.ok = @ + 1]
                         ELSE IF st = "SQL_NO_DATA"
                         THEN [fetch_calls EXCEPT !.no_data = @ + 1]
                         ELSE fetch_calls
  /\ UNCHANGED <<inputV, phase, i, stmtV, result, results, executor_calls,
                 warmup_indices, setup_executed, verV, diagV, exit_code, fileV, fsV>>

\* the count raised by one in either mode
FetchCountByOne ==
  /\ pc = "fetch_count"
  /\ result' = [result EXCEPT !.row_count = @ + 1]
  /\ pc' = "fetch"
  /\ UNCHANGED <<inputV, phase, i, callV, cont, stmtV, remaining, results,
                 executor_calls, warmup_indices, setup_executed, fetch_calls, verV,
                 diagV, exit_code, fileV, fsV>>

\* row_count += bulk_size;  /  row_count++;  }
FetchCount ==
  /\ pc = "fetch_count"
  /\ result' = [result EXCEPT !.row_count = @ + (IF use_bulk_fetch THEN bulk_size ELSE 1)]
  /\ pc' = "fetch"
  /\ UNCHANGED <<inputV, phase, i, callV, cont, stmtV, remaining, results,
                 executor_calls, warmup_indices, setup_executed, fetch_calls, verV,
                 diagV, exit_code, fileV, fsV>>

\* the first second of the wall clock
Epoch == 1

\* std::time(nullptr) during the call-th invocation of the executor: the
\* clock advances one second per invocation
ClockAt(call) == Epoch + call

\* result.timestamp when the executor returns: query_execution.cpp:123 and
\* put_execution.cpp:92 assign std::time(nullptr); the run_query of
\* execution.cpp, which main calls, never assigns the field and leaves it
\* as TestResult result; made it
TimestampAtReturn(v, call, unassigned) ==
  IF v = "main" THEN unassigned ELSE ClockAt(call)

\* the end of the executor: result.timestamp,
\* SQLFreeHandle(SQL_HANDLE_STMT, stmt); return result; and the caller's
\* loop body: push_back in run_test_iterations, nothing in run_warmup; i++
StmtFree ==
  /\ pc = "stmt_free"
  /\ \E st \in FreeStatus :
       /\ Issue(ExecutorFn, "SQLFreeHandle", st, "discarded")
       /\ FreeStmt(st)
  /\ result' = [result EXCEPT
                  !.timestamp = TimestampAtReturn(variant, result.call, result.timestamp)]
  /\ results' = IF phase = "measure" THEN Append(results, result') ELSE results
  /\ i' = i + 1
  /\ pc' = IF phase = "warmup" THEN "warmup_loop" ELSE "measure_loop"
  /\ UNCHANGED <<inputV, phase, cont, remaining, executor_calls,
                 warmup_indices, setup_executed, fetch_calls, verV, diagV, exit_code,
                 fileV, fsV>>

\* ----------------------------------------------------------------- results
\* operator<< of an integer: its decimal digits, a minus sign before them
RECURSIVE NatText(_)
NatText(n) ==
  IF n < 10 THEN <<Digits[n + 1]>>
  ELSE NatText(n \div 10) \o <<Digits[(n % 10) + 1]>>

IntText(n) == IF n < 0 THEN <<"-">> \o NatText(-n) ELSE NatText(n)

MicrosPerSecond == 1000000

\* the fraction written without its leading zeros
FixedUnpadded(us) ==
  NatText(us \div MicrosPerSecond) \o <<".">> \o NatText(us % MicrosPerSecond)

\* std::fixed << std::setprecision(6) of a duration of us microseconds, in
\* seconds: the whole seconds, a point, and six digits, zeros in front
Fixed6(us) ==
  LET frac == NatText(us % MicrosPerSecond)
  IN NatText(us \div MicrosPerSecond) \o <<".">>
       \o [k \in 1..(6 - Len(frac)) |-> "0"] \o frac

Comma == <<",">>

\* write_csv_results: the lines written, the header first
CsvResults(rs) ==
  <<<<"t","i","m","e","s","t","a","m","p",",","q","u","e","r","y","_","s",",",
      "f","e","t","c","h","_","s">>>>
    \o [k \in 1..Len(rs) |->
          IntText(rs[k].timestamp) \o Comma \o Fixed6(rs[k].query_time_s)
            \o Comma \o Fixed6(rs[k].fetch_time_s)]

\* write_csv_results_put_get: the lines written, the header first
CsvResultsPutGet(rs) ==
  <<<<"t","i","m","e","s","t","a","m","p",",","q","u","e","r","y","_","s">>>>
    \o [k \in 1..Len(rs) |->
          IntText(rs[k].timestamp) \o Comma \o Fixed6(rs[k].query_time_s)]

\* std::filesystem::path operator/ : an absolute right-hand side replaces the
\* left-hand side; otherwise a separator is put in unless the left-hand side
\* ends in one
PathAppend(lhs, rhs) ==
  IF rhs # <<>> /\ Head(rhs) = "/" THEN rhs
  ELSE IF lhs # <<>> /\ lhs[Len(lhs)] # "/" THEN lhs \o <<"/">> \o rhs
  ELSE lhs \o rhs

ResultsDir == <<"/","r","e","s","u","l","t","s">>

\* get_driver_type()'s string
DriverTypeText(t) ==
  IF t = "old" THEN <<"o","l","d">>
  ELSE <<"u","n","i","v","e","r","s","a","l">>

\* test_name << "_odbc_" << driver_type << "_" << timestamp << ".csv"
ResultsName(test_name, driver_type_str, timestamp) ==
  test_name \o <<"_","o","d","b","c","_">> \o driver_type_str \o <<"_">>
    \o IntText(timestamp) \o <<".","c","s","v">>

\* generate_results_filename
GenerateResultsFilename(test_name, driver_type_str, timestamp) ==
  PathAppend(ResultsDir, ResultsName(test_name, driver_type_str, timestamp))

\* main's own construction of the same path
MainResultsFilename(test_name, driver_type_str, timestamp) ==
  LET results_dir == ResultsDir
      filename_ss == test_name \o <<"_","o","d","b","c","_">> \o driver_type_str
                       \o <<"_">> \o IntText(timestamp) \o <<".","c","s","v">>
  IN PathAppend(results_dir, filename_ss)

\* time(nullptr) as a run may read it
Timestamps == {7, 10}

\* What reading the records may find.  A timestamp that was never assigned
\* is an indeterminate value: 0 stands for it in a record, and a reader
\* finds whatever the memory held, a second of the clock by chance, or not.
\* The records are left holding what was found.
ReadResults(rs) ==
  LET Found(k) == IF rs[k].timestamp = 0 THEN {0, ClockAt(rs[k].call)}
                  ELSE {rs[k].timestamp}
      all == UNION {Found(k) : k \in 1..Len(rs)}
  IN {[k \in 1..Len(rs) |-> [rs[k] EXCEPT !.timestamp = ts[k]]] :
        ts \in {f \in [1..Len(rs) -> all] : \A k \in 1..Len(rs) : f[k] \in Found(k)}}

\* main and the two executors: the timestamp, the results path, then
\* write_csv_results or write_csv_results_put_get; open_csv_file may fail,
\* and then nothing is written
\* std::sort's result: v put after the elements of sorted not above it
Insert(sorted, v) ==
  LET k == Cardinality({j \in 1..Len(sorted) : sorted[j] <= v})
  IN SubSeq(sorted, 1, k) \o <<v>> \o SubSeq(sorted, k + 1, Len(sorted))

\* std::sort(values.begin(), values.end())
RECURSIVE Sort(_)
Sort(s) == IF s = <<>> THEN <<>> ELSE Insert(Sort(Tail(s)), Head(s))

\* the upper central element taken for every size
MedianUpper(sorted) == sorted[(Len(sorted) \div 2) + 1]

\* the median expression of common.h:22-24 and execution.cpp:97-104, on a
\* sorted non-empty vector; sorted[k + 1] is the C++ element [k]
MedianOf(sorted) ==
  LET size == Len(sorted)
  IN IF size % 2 = 0
     THEN (sorted[(size \div 2 - 1) + 1] + sorted[(size \div 2) + 1]) \div 2
     ELSE sorted[(size \div 2) + 1]

\* calculate_stats
CalculateStats(vs) ==
  IF vs = <<>> THEN [median |-> 0, min |-> 0, max |-> 0]
  ELSE LET sorted == Sort(vs)
       IN [median |-> MedianOf(sorted), min |-> sorted[1], max |-> sorted[Len(sorted)]]

\* the parameter taken by reference: the caller sees the sorted vector
PassedByReference(vs, sorted) == sorted

\* std::vector<double> values, a parameter by value: the caller's vector is
\* as it was
PassedByValue(vs, sorted) == vs

\* the results print_statistics is handed: the durations as query times and,
\* back to front, as fetch times
TimedResults(vs) ==
  [k \in 1..Len(vs) |->
     [NewResult(k, k) EXCEPT !.query_time_s = vs[k],
                             !.fetch_time_s = vs[Len(vs) + 1 - k]]]

\* print_statistics of execution.cpp: the figures it prints, none for an
\* empty vector
PrintStatistics(rs) ==
  IF rs = <<>> THEN NoSummary
  ELSE LET query_times == Sort([k \in 1..Len(rs) |-> rs[k].query_time_s])
           fetch_times == Sort([k \in 1..Len(rs) |-> rs[k].fetch_time_s])
       IN [query |-> [median |-> MedianOf(query_times), min |-> query_times[1],
                      max |-> query_times[Len(query_times)]],
           fetch |-> [median |-> MedianOf(fetch_times), min |-> fetch_times[1],
                      max |-> fetch_times[Len(fetch_times)]]]

\* the status of a process ended by std::terminate: 128 + SIGABRT
Aborted == 134

\* open_csv_file: create_directories of the parent path throws a
\* filesystem_error nothing catches; or the stream is not open and nullptr
\* is returned; or the stream is returned open
OpenCsvOutcomes == {"threw", "not_opened", "opened"}

WriteCsv ==
  /\ pc = "write_csv"
  /\ \E t \in Timestamps :
       /\ now' = t
       /\ filename' =
            IF variant = "main"
            THEN MainResultsFilename(env.TEST_NAME.value, DriverTypeText(driver_type), t)
            ELSE GenerateResultsFilename(env.TEST_NAME.value, DriverTypeText(driver_type), t)
  /\ \E opening \in OpenCsvOutcomes :
       /\ IF opening # "opened" THEN csv' = csv /\ results' = results
          ELSE \E rs \in ReadResults(results) :
                 /\ results' = rs
                 /\ csv' = IF variant = "put_get" THEN FileOf(CsvResultsPutGet(rs))
                           ELSE FileOf(CsvResults(rs))
       /\ IF opening = "threw"
            THEN pc' = "exited" /\ exit_code' = Aborted
            ELSE /\ pc' = IF variant = "main" THEN "write_run_metadata_json"
                          ELSE "print_statistics"
                 /\ exit_code' = exit_code
  /\ UNCHANGED <<inputV, phase, i, callV, cont, stmtV, remaining, result,
                 executor_calls, warmup_indices, setup_executed, fetch_calls, verV,
                 diagV, meta, meta0, completion, fsV>>

\* the existence check always answering no
MetaExistsNever(f) == FALSE

\* std::ifstream check_file(filename); check_file.good(): the file could be
\* opened for reading
MetaExists(f) == f.exists /\ f.readable

\* std::ofstream json(filename), opened: the file is created if absent, with
\* the default mode, and truncated if present, its mode kept
OpenTruncate(f) ==
  [exists |-> TRUE, readable |-> (IF f.exists THEN f.readable ELSE TRUE),
   data |-> <<>>]

\* a write of doc at offset 0 of a file holding data
Overlay(data, doc) ==
  [k \in 1..(IF Len(data) > Len(doc) THEN Len(data) ELSE Len(doc)) |->
     IF k <= Len(doc) THEN doc[k] ELSE data[k]]

\* json << ...; json.close(): the stream's buffer goes to the file
FlushDocument(f, doc) == [f EXCEPT !.data = Overlay(@, doc)]

\* write_run_metadata_json by the one process writer, the open succeeding or not
WriteRunMetadata(f, writer, opened) ==
  IF MetaExists(f) THEN f
  ELSE IF ~opened THEN f
  ELSE FlushDocument(OpenTruncate(f), MetaDocument(writer, 1))

WriteRunMetadataJson ==
  /\ pc = "write_run_metadata_json"
  /\ \E opened \in BOOLEAN :
       meta' = [meta EXCEPT ![driver_type] = WriteRunMetadata(@, 1, opened)]
  /\ pc' = IF variant = "main" THEN "print_statistics" ELSE "returned"
  /\ completion' = IF variant = "main" THEN completion ELSE filename
  /\ UNCHANGED <<inputV, phase, i, callV, cont, stmtV, remaining, iterV, verV,
                 diagV, exit_code, csv, meta0, now, filename, fsV>>

\* the figures the three print_statistics put on the output for results rs
SummaryOf(v, rs) ==
  LET query_times == [k \in 1..Len(rs) |-> rs[k].query_time_s]
      fetch_times == [k \in 1..Len(rs) |-> rs[k].fetch_time_s]
  IN IF rs = <<>> THEN NoSummary
     ELSE IF v = "main" THEN PrintStatistics(rs)
     ELSE IF v = "fetch"
       THEN [query |-> CalculateStats(query_times), fetch |-> CalculateStats(fetch_times)]
     ELSE [query |-> CalculateStats(query_times), fetch |-> NoStats]

\* print_statistics(results); in main the completion line follows it, in the
\* two executors finalize_test_execution does
PrintStatisticsStep ==
  /\ pc = "print_statistics"
  /\ summary' = SummaryOf(variant, results)
  /\ completion' = IF variant = "main" THEN filename ELSE completion
  /\ pc' = IF variant = "main" THEN "disconnect" ELSE "write_run_metadata_json"
  /\ UNCHANGED <<variant, use_bulk_fetch, sql_command, driver_type, env, mproc,
                 first_writer, values, stats, kproc, suiteV, cfgV, phase, i, callV,
                 cont, stmtV, remaining, iterV, verV, diagV, exit_code, csv, meta,
                 meta0, now, filename, fsV>>

\* ------------------------------------------------------------------ cleanup
Disconnect ==
  /\ pc = "disconnect"
  /\ phase' = "cleanup"
  /\ \E st \in FreeStatus : Issue("main", "SQLDisconnect", st, "discarded")
  /\ pc' = "free_dbc"
  /\ UNCHANGED <<inputV, i, cont, stmtV, remaining, iterV, verV, diagV,
                 exit_code, fileV, fsV>>

FreeDbc ==
  /\ pc = "free_dbc"
  /\ \E st \in FreeStatus : Issue("main", "SQLFreeHandle DBC", st, "discarded")
  /\ pc' = "free_env"
  /\ UNCHANGED <<inputV, phase, i, cont, stmtV, remaining, iterV, verV, diagV,
                 exit_code, fileV, fsV>>

\* SQLFreeHandle(SQL_HANDLE_ENV, env); return 0;
FreeEnv ==
  /\ pc = "free_env"
  /\ \E st \in FreeStatus : Issue("main", "SQLFreeHandle ENV", st, "discarded")
  /\ pc' = "exited"
  /\ exit_code' = 0
  /\ UNCHANGED <<inputV, phase, i, cont, stmtV, remaining, iterV, verV, diagV,
                 fileV, fsV>>

Next ==
  \/ GetTestName \/ GetSqlCommand \/ GetEnvInts \/ ParseParameters \/ ParseSetup
  \/ CreateEnvironment \/ SetEnvAttr \/ AllocDbc \/ GetConnectionString
  \/ DriverConnect
  \/ CheckOdbcError \/ GetDiagRec
  \/ GetDriverVersion
  \/ ServerVersionAlloc \/ ServerVersionExec \/ ServerVersionFetch
  \/ ServerVersionGetData \/ ServerVersionFree
  \/ ExecuteSetupQueries \/ SetupLoop \/ SetupAlloc \/ SetupExec \/ SetupFree
  \/ RunWarmup \/ WarmupLoop \/ RunTestIterations \/ MeasureLoop
  \/ ExecutorBegin \/ StmtAlloc \/ StmtExec \/ SetStmtAttr \/ Fetch
  \/ FetchCount \/ StmtFree
  \/ WriteCsv \/ WriteRunMetadataJson \/ PrintStatisticsStep
  \/ Disconnect \/ FreeDbc \/ FreeEnv

Spec == Init /\ [][Next]_vars


\* --------------------------------------------------------------------------
\* main from its first line to the connection, over a wide range of
\* environments: one variable at a time takes every value of its range
\* --------------------------------------------------------------------------
EnvAlphabet == {"1", "2", "x", "-"}

\* the strings of at most MaxEnvLen characters, and two numerals no int holds
EnvStrings ==
  UNION {[1..n -> EnvAlphabet] : n \in 0..MaxEnvLen}
    \cup {<<"2","1","4","7","4","8","3","6","4","8">>,
          <<"9","9","9","9","9","9","9","9","9","9","9">>}

EnvValues == {Unset} \cup {SetTo(v) : v \in EnvStrings}

\* the texts a setup statement is given as: empty, plain, or holding a quote
SetupStrings == {<<>>, <<"a">>, <<"b">>, <<"a", Quote, "b">>}

\* the lists of at most MaxSetup setup statements
SetupArrays == UNION {[1..n -> SetupStrings] : n \in 0..MaxSetup}

\* a string as JSON writes it: between quotes, a quote inside it escaped
JsonString(str) ==
  LET RECURSIVE Escaped(_)
      Escaped(t) == IF t = <<>> THEN <<>>
                    ELSE (IF Head(t) = Quote THEN <<"\\", Quote>> ELSE <<Head(t)>>)
                           \o Escaped(Tail(t))
  IN <<Quote>> \o Escaped(str) \o <<Quote>>

\* a list of strings as a JSON array:  ["a","b"]
ArrayJson(arr) ==
  LET RECURSIVE Members(_)
      Members(k) == IF k = 0 THEN <<>>
                    ELSE Members(k - 1) \o (IF k > 1 THEN <<",">> ELSE <<>>)
                           \o JsonString(arr[k])
  IN <<"[">> \o Members(Len(arr)) \o <<"]">>

ConfigEnvs ==
  {[GoodEnv EXCEPT !.PERF_ITERATIONS = v] : v \in EnvValues}
    \cup {[GoodEnv EXCEPT !.SETUP_QUERIES = SetTo(ArrayJson(arr))] : arr \in SetupArrays}
    \cup {[GoodEnv EXCEPT !.PERF_WARMUP_ITERATIONS = v] :
            v \in {Unset, SetTo(<<>>), SetTo(<<"x">>), SetTo(<<"1">>)}}
    \cup {[GoodEnv EXCEPT !.PARAMETERS_JSON = d] : d \in DocParts}
    \cup {[GoodEnv EXCEPT !.PARAMETERS_JSON = [FullDoc EXCEPT !.host = h, !.optional = o]] :
            h \in BOOLEAN, o \in SUBSET OptionalNames}
    \cup {[GoodEnv EXCEPT !.TEST_NAME = a, !.SQL_COMMAND = b] :
            a, b \in {Unset, SetTo(<<>>), SetTo(<<"t">>)}}

InitConfig ==
  /\ InitFrom(ConfigEnvs)
  /\ variant = "main"
  /\ driver_type = "universal"
  /\ meta = [t \in DriverTypes |-> AbsentFile]

NextConfig ==
  \/ GetTestName \/ GetSqlCommand \/ GetEnvInts \/ ParseParameters \/ ParseSetup
  \/ CreateEnvironment \/ SetEnvAttr \/ AllocDbc \/ GetConnectionString
  \/ DriverConnect \/ CheckOdbcError \/ GetDiagRec

SpecConfig == InitConfig /\ [][NextConfig]_vars

\* everything but the metadata files, the processes and the statistics
quietNoSuiteV ==
  <<variant, use_bulk_fetch, sql_command, warmup_iterations, iterations,
    setup_queries, driver_type, pc, phase, i, ret, last_call, ret_checked,
    cont, stmt, remaining, result, results, executor_calls, warmup_indices,
    warmup_made_call, driver_version, server_version, rec_num, diag_avail,
    diag_ret, printed, exit_code, csv, meta0, fs, fs_before, fs_at_exec,
    env, params, conn_string, key_file, now, filename, completion, setup_executed,
    fetch_calls, connects, call_failed, open_stmts>>
quietV == <<quietNoSuiteV, kproc, suiteV>>

harnessV == <<quietV, statV>>

\* --------------------------------------------------------------------------
\* calculate_stats and print_statistics, each called once by a caller holding
\* a vector of durations.  A duration is a whole number of clock ticks, held
\* in half ticks, so that the mean of two is a whole number too.
\* --------------------------------------------------------------------------
Durations == {2 * k : k \in 0..MaxDur}

CalculateStatsCall ==
  /\ stats = NoStats
  /\ stats' = CalculateStats(values)
  /\ values' = PassedByValue(values, Sort(values))
  /\ UNCHANGED <<quietV, summary, meta, mproc, first_writer>>

PrintStatisticsCall ==
  /\ summary = NoSummary
  /\ summary' = PrintStatistics(TimedResults(values))
  /\ UNCHANGED <<quietV, values, stats, meta, mproc, first_writer>>

\* --------------------------------------------------------------------------
\* Several harness processes, each at the end of its run, inside
\* write_run_metadata_json for the path of its driver type.  The steps are the
\* function's system calls: the existence check, the open, the write.
\* --------------------------------------------------------------------------
\* the harness of variant v and driver type dt stopped at position at, between
\* two phases, with environment e and measured results rs; Idle, with nothing
\* running, is the state the metadata writers and the callers of the
\* statistics functions start from
Halted(v, dt, at, e, rs) ==
  /\ variant = v
  /\ use_bulk_fetch = FALSE
  /\ sql_command = "Select"
  /\ warmup_iterations = 0
  /\ iterations = Len(rs)
  /\ setup_queries = <<>>
  /\ setup_executed = <<>>
  /\ fetch_calls = NoFetches
  /\ connects = 0
  /\ call_failed = FALSE
  /\ open_stmts = 0
  /\ env = e
  /\ params = <<>>
  /\ conn_string = <<>>
  /\ key_file = AbsentFile
  /\ now = 0
  /\ filename = <<>>
  /\ completion = <<>>
  /\ stats = NoStats
  /\ summary = NoSummary
  /\ driver_type = dt
  /\ pc = at
  /\ phase = "persist"
  /\ i = 0
  /\ ret = "SQL_SUCCESS"
  /\ last_call = NoCall
  /\ ret_checked = TRUE
  /\ cont = "none"
  /\ stmt = "null"
  /\ remaining = 0
  /\ result = NewResult(0, 0)
  /\ results = rs
  /\ executor_calls = [warmup |-> 0, measure |-> Len(rs)]
  /\ warmup_indices = <<>>
  /\ warmup_made_call = FALSE
  /\ driver_version = "version"
  /\ server_version = "version"
  /\ rec_num = 0
  /\ diag_avail = 0
  /\ diag_ret = "none"
  /\ printed = <<>>
  /\ exit_code = -1
  /\ csv = AbsentFile
  /\ fs = EmptyFs
  /\ fs_before = fs
  /\ fs_at_exec = fs
  /\ mproc = [p \in Procs |-> IdleProc]
  /\ first_writer = [t \in DriverTypes |-> 0]

Idle == Halted("main", "universal", "none", GoodEnv, <<>>)

InitMetaOnly ==
  /\ Idle
  /\ SuiteIdle
  /\ KeyIdle
  /\ meta \in [DriverTypes -> {AbsentFile, UnreadableFileOf(MetaDocument(0, 1))}]
  /\ meta0 = meta
  /\ values = <<>>

\* a caller of the statistics functions, holding any one of the bounded vectors
InitStats ==
  /\ Idle
  /\ SuiteIdle
  /\ KeyIdle
  /\ meta = [t \in DriverTypes |-> AbsentFile]
  /\ meta0 = meta
  /\ \E n \in 0..MaxValues : values \in [1..n -> Durations]

\* --------------------------------------------------------------------------
\* A run that has finished its measured loop, about to name and write its
\* results file: either its results or its test name ranges widely
\* --------------------------------------------------------------------------
Micros == {0, 5, 1500000}

PersistResults ==
  UNION {[1..n -> {[NewResult(0, 0) EXCEPT !.timestamp = t, !.query_time_s = q,
                                           !.fetch_time_s = f] :
                     t \in Timestamps, q \in Micros, f \in {0, 123456}}] :
           n \in 0..MaxResults}

NameAlphabet == {"t", "/", "_", "1"}

TestNames == UNION {[1..n -> NameAlphabet] : n \in 0..MaxNameLen}

InitPersist ==
  /\ \E v \in Variants, dt \in DriverTypes :
       \/ \E rs \in PersistResults :
            Halted(v, dt, "write_csv", GoodEnv,
                   [k \in 1..Len(rs) |-> [rs[k] EXCEPT !.iteration = k, !.call = k]])
       \/ \E name \in TestNames :
            Halted(v, dt, "write_csv", [GoodEnv EXCEPT !.TEST_NAME = SetTo(name)], <<>>)
  /\ meta = [t \in DriverTypes |-> AbsentFile]
  /\ meta0 = meta
  /\ values = <<>>
  /\ SuiteIdle
  /\ KeyIdle

NextPersist == WriteCsv \/ WriteRunMetadataJson \/ PrintStatisticsStep

SpecPersist == InitPersist /\ [][NextPersist]_vars

NextStats == CalculateStatsCall \/ PrintStatisticsCall

SpecStats == InitStats /\ [][NextStats]_vars

Quiet(p) == mproc[p].pc \in {"idle", "done"}

\* process p reaches write_run_metadata_json(driver_type, ..., filename)
MetaCall(p, t, len) ==
  /\ mproc[p].pc = "idle"
  /\ mproc' = [mproc EXCEPT ![p] =
                 [IdleProc EXCEPT !.pc = "check", !.type = t, !.len = len,
                    !.order = 1 + Cardinality({q \in Procs : mproc[q].pc # "idle"})]]
  /\ UNCHANGED <<meta, first_writer, harnessV>>

\* std::ifstream check_file(filename); if (check_file.good()) return;
MetaCheck(p) ==
  /\ mproc[p].pc = "check"
  /\ mproc' = [mproc EXCEPT ![p] =
                 IF MetaExists(meta[mproc[p].type])
                 THEN [@ EXCEPT !.pc = "done", !.outcome = "skipped",
                                !.seen = meta[mproc[p].type]]
                 ELSE [@ EXCEPT !.pc = "open"]]
  /\ UNCHANGED <<meta, first_writer, harnessV>>

\* std::ofstream json(filename); if (!json.is_open()) return;
MetaOpen(p) ==
  /\ mproc[p].pc = "open"
  /\ \E opened \in BOOLEAN :
       IF opened
       THEN /\ meta' = [meta EXCEPT ![mproc[p].type] = OpenTruncate(@)]
            /\ mproc' = [mproc EXCEPT ![p].pc = "write"]
       ELSE /\ meta' = meta
            /\ mproc' = [mproc EXCEPT ![p].pc = "done", ![p].outcome = "open failed"]
  /\ UNCHANGED <<first_writer, harnessV>>

\* json << ...; json.close(): the document reaches the file
MetaWrite(p) ==
  /\ mproc[p].pc = "write"
  /\ LET t == mproc[p].type
     IN /\ meta' = [meta EXCEPT ![t] =
                      FlushDocument(@, MetaDocument(p, mproc[p].len))]
        /\ first_writer' = IF first_writer[t] = 0
                           THEN [first_writer EXCEPT ![t] = p]
                           ELSE first_writer
  /\ mproc' = [mproc EXCEPT ![p].pc = "done", ![p].outcome = "wrote"]
  /\ UNCHANGED harnessV

\* runs one after another: a run starts when no other is under way
StartRun ==
  \E p \in Procs, t \in DriverTypes, len \in 1..MaxDocLen :
    /\ \A q \in Procs : Quiet(q)
    /\ MetaCall(p, t, len)

\* concurrent processes: a process arrives whatever the others are doing
Arrive ==
  \E p \in Procs, t \in DriverTypes, len \in 1..MaxDocLen : MetaCall(p, t, len)

CheckStep == \E p \in Procs : MetaCheck(p)
OpenStep == \E p \in Procs : MetaOpen(p)
WriteStep == \E p \in Procs : MetaWrite(p)

NextRuns == StartRun \/ CheckStep \/ OpenStep \/ WriteStep
SpecRuns == InitMetaOnly /\ [][NextRuns]_vars

NextRace == Arrive \/ CheckStep \/ OpenStep \/ WriteStep
SpecRace == InitMetaOnly /\ [][NextRace]_vars


\* --------------------------------------------------------------------------
\* The ODBC test suite: a connect that must fail, and get_diag_rec reading
\* the diagnostic records of the connection handle
\* --------------------------------------------------------------------------
\* everything the harness process and the metadata writers own
appV == <<quietNoSuiteV, statV, meta, mproc, first_writer, kproc>>

\* a diagnostic record as the driver holds it: SQLSTATE, native error, and
\* whether the message fits the caller's buffer
DiagRecs == [sqlState : {"28000", "HY000"}, nativeError : {0, 20032}, fits : BOOLEAN]

\* the records a failed call may leave on the handle
DiagLists == UNION {[1..n -> DiagRecs] : n \in 0..MaxDiag}

\* the status of SQLGetDiagRec(type, handle, n, ...) on a handle holding recs
SQLGetDiagRec(recs, n) ==
  IF n < 1 THEN "SQL_ERROR"
  ELSE IF n > Len(recs) THEN "SQL_NO_DATA"
  ELSE IF recs[n].fits THEN "SQL_SUCCESS"
  ELSE "SQL_SUCCESS_WITH_INFO"

\* the DiagRec get_diag_rec builds from what the call wrote
DiagRecOf(r) == [sqlState |-> r.sqlState, nativeError |-> r.nativeError]

\* SQLDriverConnect; REQUIRE(ret == SQL_ERROR); then get_diag_rec is entered
\* with recNumber = 1 and an empty vector
VerifyConnectionFails ==
  /\ tpc = "connect"
  /\ \E status \in {"SQL_SUCCESS", "SQL_ERROR"} :
       /\ tret' = status
       /\ \E recs \in (IF status = "SQL_ERROR" THEN DiagLists ELSE {<<>>}) :
            drv_diag' = recs
       /\ IF status = "SQL_ERROR"
            THEN tpc' = "get_diag_rec" /\ recNumber' = 1 /\ records' = <<>>
            ELSE tpc' = "failed" /\ UNCHANGED <<recNumber, records>>
  /\ UNCHANGED <<appV, wrappers, handles, scopeV>>

\* one round of get_diag_rec's loop
GetDiagRecRoundStopsOnInfo ==
  /\ tpc = "get_diag_rec"
  /\ tret' = SQLGetDiagRec(drv_diag, recNumber)
  /\ IF tret' \in {"SQL_NO_DATA", "SQL_SUCCESS_WITH_INFO"}
       THEN tpc' = "returned" /\ UNCHANGED <<recNumber, records>>
       ELSE IF tret' # "SQL_SUCCESS"
         THEN tpc' = "failed" /\ UNCHANGED <<recNumber, records>>
         ELSE /\ records' = Append(records, DiagRecOf(drv_diag[recNumber]))
              /\ recNumber' = recNumber + 1
              /\ tpc' = tpc
  /\ UNCHANGED <<appV, wrappers, handles, drv_diag, scopeV>>

GetDiagRecRound ==
  /\ tpc = "get_diag_rec"
  /\ tret' = SQLGetDiagRec(drv_diag, recNumber)
  /\ IF tret' = "SQL_NO_DATA"
       THEN tpc' = "returned" /\ UNCHANGED <<recNumber, records>>
       ELSE IF tret' # "SQL_SUCCESS"
         THEN tpc' = "failed" /\ UNCHANGED <<recNumber, records>>
         ELSE /\ records' = Append(records, DiagRecOf(drv_diag[recNumber]))
              /\ recNumber' = recNumber + 1
              /\ tpc' = tpc
  /\ UNCHANGED <<appV, wrappers, handles, drv_diag, scopeV>>

\* REQUIRE(records.size() == 1)
RequireOneRecord ==
  /\ tpc = "returned"
  /\ tpc' = IF Len(records) = 1 THEN "passed" ELSE "failed_size"
  /\ UNCHANGED <<appV, tret, wrappers, handles, recNumber, records, drv_diag, scopeV>>

\* the test about to call SQLDriverConnect with a connection string that
\* names no private key file
InitDiag ==
  /\ Idle
  /\ meta = [t \in DriverTypes |-> AbsentFile]
  /\ meta0 = meta
  /\ values = <<>>
  /\ KeyIdle
  /\ tpc = "connect"
  /\ tret = "none"
  /\ wrappers = [w \in WrapperIds |-> NoWrapper]
  /\ handles = <<>>
  /\ recNumber = 0
  /\ records = <<>>
  /\ drv_diag = <<>>
  /\ locals = <<>>
  /\ thrown = FALSE

NextDiag == VerifyConnectionFails \/ GetDiagRecRound \/ RequireOneRecord

SpecDiag == InitDiag /\ [][NextDiag]_vars

\* --------------------------------------------------------------------------
\* The ODBC test suite: HandleWrapper objects and the driver's handles
\* --------------------------------------------------------------------------
\* the handle type a handle of the given type is allocated from
ParentType(type) ==
  IF type = "STMT" THEN "DBC" ELSE IF type = "DBC" THEN "ENV" ELSE "none"

\* a handle as SQLAllocHandle gives it out
NewHandle(type, parent) ==
  [type |-> type, parent |-> parent, valid |-> TRUE, frees |-> 0, conn |-> "never"]

\* the handles allocated from h that the driver still holds
Children(hs, h) == {c \in 1..Len(hs) : hs[c].parent = h /\ hs[c].valid}

\* the statuses SQLAllocHandle(type, parent, &handle) may answer
AllocStatuses(hs, type, parent) ==
  IF \/ type = "ENV" /\ parent = NullHandle
     \/ /\ parent # NullHandle
        /\ hs[parent].valid
        /\ hs[parent].type = ParentType(type)
  THEN {"SQL_SUCCESS", "SQL_ERROR"}
  ELSE {"SQL_INVALID_HANDLE"}

\* SQLFreeHandle(type, h): nothing for SQL_NULL_HANDLE; the driver gives the
\* handle up unless it still has children or is a connected connection
SQLFreeHandle(hs, h) ==
  IF h = NullHandle THEN hs
  ELSE [hs EXCEPT ![h] =
          [@ EXCEPT !.frees = @ + 1,
                    !.valid = @ /\ ~(Children(hs, h) = {} /\ hs[h].conn # "connected")]]

\* HandleWrapper(parent_handle, type) in storage w: SQLAllocHandle, and
\* CHECK_ODBC_ERROR throwing out of the constructor, so that no object exists
Construct(w, type, parent, status) ==
  /\ ~wrappers[w].alive
  /\ tret' = status
  /\ IF status \in OkStatus
       THEN /\ handles' = Append(handles, NewHandle(type, parent))
            /\ wrappers' = [wrappers EXCEPT
                 ![w] = [alive |-> TRUE, handle |-> Len(handles) + 1, type |-> type]]
       ELSE UNCHANGED <<handles, wrappers>>

\* the move constructor leaving the source its handle
MoveConstructKeepsSource(w, other) ==
  /\ ~wrappers[w].alive
  /\ wrappers[other].alive
  /\ wrappers' = [wrappers EXCEPT ![w] = wrappers[other]]

\* HandleWrapper(HandleWrapper&& other) in storage w
MoveConstruct(w, other) ==
  /\ ~wrappers[w].alive
  /\ wrappers[other].alive
  /\ wrappers' = [wrappers EXCEPT ![w] = wrappers[other],
                                  ![other].handle = NullHandle]

\* ~HandleWrapper() of the object in storage w
Destroy(w) ==
  /\ wrappers[w].alive
  /\ handles' = SQLFreeHandle(handles, wrappers[w].handle)
  /\ wrappers' = [wrappers EXCEPT ![w] = NoWrapper]

\* a test constructs a wrapper: an environment, a connection from a live
\* environment wrapper, a statement from a live connection wrapper
WrapperConstruct ==
  /\ tpc = "wrappers"
  /\ Len(handles) < MaxHandles
  /\ \E w \in WrapperIds :
       \/ \E status \in AllocStatuses(handles, "ENV", NullHandle) :
            Construct(w, "ENV", NullHandle, status)
       \/ \E o \in WrapperIds :
            /\ wrappers[o].alive
            /\ wrappers[o].type \in {"ENV", "DBC"}
            /\ LET type == IF wrappers[o].type = "ENV" THEN "DBC" ELSE "STMT"
               IN \E status \in AllocStatuses(handles, type, wrappers[o].handle) :
                    Construct(w, type, wrappers[o].handle, status)
  /\ UNCHANGED <<appV, tpc, recNumber, records, drv_diag, scopeV>>

WrapperMove ==
  /\ tpc = "wrappers"
  /\ \E w, o \in WrapperIds : MoveConstruct(w, o)
  /\ UNCHANGED <<appV, tpc, tret, handles, recNumber, records, drv_diag, scopeV>>

WrapperDestroy ==
  /\ tpc = "wrappers"
  /\ \E w \in WrapperIds : Destroy(w)
  /\ UNCHANGED <<appV, tpc, tret, recNumber, records, drv_diag, scopeV>>

\* a test with storage for MaxWrappers objects, none constructed yet
InitWrappers ==
  /\ Idle
  /\ meta = [t \in DriverTypes |-> AbsentFile]
  /\ meta0 = meta
  /\ values = <<>>
  /\ KeyIdle
  /\ tpc = "wrappers"
  /\ tret = "none"
  /\ wrappers = [w \in WrapperIds |-> NoWrapper]
  /\ handles = <<>>
  /\ recNumber = 0
  /\ records = <<>>
  /\ drv_diag = <<>>
  /\ locals = <<>>
  /\ thrown = FALSE

NextWrappers == WrapperConstruct \/ WrapperMove \/ WrapperDestroy

SpecWrappers == InitWrappers /\ [][NextWrappers]_vars

\* --------------------------------------------------------------------------
\* The ODBC test suite: a test that declares a Connection, then a Schema and
\* statements, and leaves its scope, normally or by an exception.  The
\* Connection's members env and dbc are the wrappers in storage 1 and 2.
\* --------------------------------------------------------------------------
Member == [env |-> 1, dbc |-> 2]

\* the handles of the two members
EnvHandle == wrappers[Member.env].handle
DbcHandle == wrappers[Member.dbc].handle

\* conn.execute(query) with its result discarded: the statement is allocated
\* if the driver allows, and its wrapper is destroyed at the end of the
\* expression or by the exception CHECK_ODBC throws
ExecuteAndFree(hs, d, alloc) ==
  IF alloc \in OkStatus
  THEN SQLFreeHandle(Append(hs, NewHandle("STMT", d)), Len(hs) + 1)
  ELSE hs

\* statements a test may still allocate
MayAllocate(n) == Len(handles) + n <= MaxHandles + 2

\* initEnv(): the wrapper, SQLSetEnvAttr, CHECK_ODBC; on a throw the local is
\* destroyed and no Connection exists
ConnInitEnv ==
  /\ tpc = "init_env"
  /\ \E alloc \in AllocStatuses(handles, "ENV", NullHandle), attr \in FreeStatus :
       IF alloc \in OkStatus /\ attr \in OkStatus
       THEN /\ Construct(Member.env, "ENV", NullHandle, alloc)
            /\ tpc' = "init_dbc"
            /\ thrown' = thrown
       ELSE /\ tret' = IF alloc \in OkStatus THEN attr ELSE alloc
            /\ handles' = IF alloc \in OkStatus
                          THEN SQLFreeHandle(Append(handles, NewHandle("ENV", NullHandle)),
                                             Len(handles) + 1)
                          ELSE handles
            /\ wrappers' = wrappers
            /\ tpc' = "failed"
            /\ thrown' = TRUE
  /\ UNCHANGED <<appV, recNumber, records, drv_diag, locals>>

\* initDbc(env, connection_string): the wrapper, SQLDriverConnect,
\* CHECK_ODBC; on a throw the local is destroyed, then the member env
ConnInitDbc ==
  /\ tpc = "init_dbc"
  /\ \E alloc \in AllocStatuses(handles, "DBC", EnvHandle), connect \in DriverStatus :
       IF alloc \in OkStatus /\ connect \in OkStatus
       THEN /\ tret' = connect
            /\ handles' = Append(handles, [NewHandle("DBC", EnvHandle)
                                             EXCEPT !.conn = "connected"])
            /\ wrappers' = [wrappers EXCEPT ![Member.dbc] =
                 [alive |-> TRUE, handle |-> Len(handles) + 1, type |-> "DBC"]]
            /\ tpc' = "body"
            /\ thrown' = thrown
       ELSE /\ tret' = IF alloc \in OkStatus THEN connect ELSE alloc
            /\ handles' =
                 SQLFreeHandle(
                   IF alloc \in OkStatus
                   THEN SQLFreeHandle(Append(handles, NewHandle("DBC", EnvHandle)),
                                      Len(handles) + 1)
                   ELSE handles,
                   EnvHandle)
            /\ wrappers' = [wrappers EXCEPT ![Member.env] = NoWrapper]
            /\ tpc' = "failed"
            /\ thrown' = TRUE
  /\ UNCHANGED <<appV, recNumber, records, drv_diag, locals>>

\* conn.execute(query);
TestExecute ==
  /\ tpc = "body"
  /\ MayAllocate(1)
  /\ \E alloc \in AllocStatuses(handles, "STMT", DbcHandle), exec \in DriverStatus :
       /\ tret' = IF alloc \in OkStatus THEN exec ELSE alloc
       /\ handles' = ExecuteAndFree(handles, DbcHandle, alloc)
       /\ IF tret' \in OkStatus THEN UNCHANGED <<tpc, thrown>>
          ELSE tpc' = "unwind" /\ thrown' = TRUE
  /\ UNCHANGED <<appV, wrappers, recNumber, records, drv_diag, locals>>

\* Schema schema(conn, name): CREATE SCHEMA, then USE SCHEMA, each by
\* conn.execute; the object exists once both have succeeded
TestSchema ==
  /\ tpc = "body"
  /\ MayAllocate(2)
  /\ \A k \in 1..Len(locals) : locals[k] # 0
  /\ \E alloc1, alloc2 \in AllocStatuses(handles, "STMT", DbcHandle),
        create, use \in DriverStatus :
       /\ tret' = IF alloc1 \notin OkStatus THEN alloc1
                  ELSE IF create \notin OkStatus THEN create
                  ELSE IF alloc2 \notin OkStatus THEN alloc2
                  ELSE use
       /\ handles' = IF alloc1 \in OkStatus /\ create \in OkStatus
                     THEN ExecuteAndFree(ExecuteAndFree(handles, DbcHandle, alloc1),
                                         DbcHandle, alloc2)
                     ELSE ExecuteAndFree(handles, DbcHandle, alloc1)
       /\ IF tret' \in OkStatus
            THEN locals' = Append(locals, 0) /\ UNCHANGED <<tpc, thrown>>
            ELSE locals' = locals /\ tpc' = "unwind" /\ thrown' = TRUE
  /\ UNCHANGED <<appV, wrappers, recNumber, records, drv_diag>>

\* auto stmt = conn.createStatement(), conn.execute(query) or
\* conn.execute_fetch(query): a local statement wrapper
TestStatement ==
  /\ tpc = "body"
  /\ MayAllocate(1)
  /\ \E w \in WrapperIds \ {Member.env, Member.dbc},
        alloc \in AllocStatuses(handles, "STMT", DbcHandle), exec \in DriverStatus :
       /\ ~wrappers[w].alive
       /\ IF alloc \in OkStatus /\ exec \in OkStatus
            THEN /\ Construct(w, "STMT", DbcHandle, exec)
                 /\ locals' = Append(locals, w)
                 /\ UNCHANGED <<tpc, thrown>>
            ELSE /\ tret' = IF alloc \in OkStatus THEN exec ELSE alloc
                 /\ handles' = ExecuteAndFree(handles, DbcHandle, alloc)
                 /\ UNCHANGED <<wrappers, locals>>
                 /\ tpc' = "unwind"
                 /\ thrown' = TRUE
  /\ UNCHANGED <<appV, recNumber, records, drv_diag>>

\* the end of the test's scope, or a REQUIRE of the test failing
TestLeave ==
  /\ tpc = "body"
  /\ tpc' = "unwind"
  /\ thrown' \in BOOLEAN
  /\ UNCHANGED <<appV, tret, wrappers, handles, recNumber, records, drv_diag, locals>>

\* the last declared local is destroyed: a statement wrapper, or the Schema,
\* whose destructor runs conn.execute("DROP SCHEMA ...") and, if that throws,
\* ends the process
UnwindLocal ==
  /\ tpc = "unwind"
  /\ locals # <<>>
  /\ LET last == locals[Len(locals)]
         rest == SubSeq(locals, 1, Len(locals) - 1)
     IN IF last # 0
        THEN /\ Destroy(last)
             /\ locals' = rest
             /\ UNCHANGED <<tpc, tret>>
        ELSE \E alloc \in AllocStatuses(handles, "STMT", DbcHandle), exec \in DriverStatus :
               /\ tret' = IF alloc \in OkStatus THEN exec ELSE alloc
               /\ handles' = ExecuteAndFree(handles, DbcHandle, alloc)
               /\ wrappers' = wrappers
               /\ IF tret' \in OkStatus THEN locals' = rest /\ tpc' = tpc
                  ELSE locals' = locals /\ tpc' = "terminated"
  /\ UNCHANGED <<appV, recNumber, records, drv_diag, thrown>>

\* ~Connection() going on to its members without SQLDisconnect
ConnectionDtorNoDisconnect ==
  /\ tpc = "unwind"
  /\ locals = <<>>
  /\ tret' = "SQL_SUCCESS"
  /\ handles' = handles
  /\ tpc' = "free_dbc"
  /\ UNCHANGED <<appV, wrappers, recNumber, records, drv_diag, scopeV>>

\* ~Connection(): SQLDisconnect and CHECK_ODBC, which ends the process if it
\* throws
ConnectionDtor ==
  /\ tpc = "unwind"
  /\ locals = <<>>
  /\ \E status \in DriverStatus :
       /\ tret' = status
       /\ IF status \in OkStatus
            THEN /\ handles' = [handles EXCEPT ![DbcHandle].conn = "disconnected"]
                 /\ tpc' = "free_dbc"
            ELSE /\ handles' = handles
                 /\ tpc' = "terminated"
  /\ UNCHANGED <<appV, wrappers, recNumber, records, drv_diag, scopeV>>

\* the members are destroyed in the reverse of their declaration: dbc
ConnFreeDbc ==
  /\ tpc = "free_dbc"
  /\ Destroy(Member.dbc)
  /\ tpc' = "free_env"
  /\ UNCHANGED <<appV, tret, recNumber, records, drv_diag, scopeV>>

\* then env
ConnFreeEnv ==
  /\ tpc = "free_env"
  /\ Destroy(Member.env)
  /\ tpc' = IF thrown THEN "failed" ELSE "passed"
  /\ UNCHANGED <<appV, tret, recNumber, records, drv_diag, scopeV>>

\* a test about to declare its Connection
InitConn ==
  /\ Idle
  /\ meta = [t \in DriverTypes |-> AbsentFile]
  /\ meta0 = meta
  /\ values = <<>>
  /\ KeyIdle
  /\ tpc = "init_env"
  /\ tret = "none"
  /\ wrappers = [w \in WrapperIds |-> NoWrapper]
  /\ handles = <<>>
  /\ recNumber = 0
  /\ records = <<>>
  /\ drv_diag = <<>>
  /\ locals = <<>>
  /\ thrown = FALSE

NextConn ==
  \/ ConnInitEnv \/ ConnInitDbc
  \/ TestExecute \/ TestSchema \/ TestStatement \/ TestLeave
  \/ UnwindLocal \/ ConnectionDtor \/ ConnFreeDbc \/ ConnFreeEnv

SpecConn == InitConn /\ [][NextConn]_vars

\* the harness process and a test of the suite, each from its start
InitTeardown == Init \/ InitConn

NextTeardown == Next \/ NextConn

SpecTeardown == InitTeardown /\ [][NextTeardown]_vars

\* --------------------------------------------------------------------------
\* Several harness processes started together, each inside create_connection:
\* get_connection_string stages the process's private key in the one file
\* of the temp directory, then SQLDriverConnect has the driver read that file.
\* The steps are the system calls: the truncating open, the write, the read.
\* --------------------------------------------------------------------------
\* the key texts a process may hold, of different lengths
KeyTexts == {<<"a">>, <<"b", "b">>}

\* what a step on the key file leaves alone
keyFrameV ==
  <<variant, use_bulk_fetch, sql_command, warmup_iterations, iterations,
    setup_queries, driver_type, pc, phase, i, ret, last_call, ret_checked,
    cont, stmt, remaining, result, results, executor_calls, warmup_indices,
    warmup_made_call, driver_version, server_version, rec_num, diag_avail,
    diag_ret, printed, exit_code, csv, meta0, fs, fs_before, fs_at_exec,
    env, params, conn_string, now, filename, completion, setup_executed,
    fetch_calls, connects, call_failed, open_stmts, statV, meta, mproc,
    first_writer, suiteV>>

\* process p reaches write_private_key_to_file(private_key)
KeyArrive ==
  \E p \in Procs, text \in KeyTexts :
    /\ kproc[p].pc = "idle"
    /\ kproc' = [kproc EXCEPT ![p] = [@ EXCEPT !.pc = "open", !.key = text]]
    /\ UNCHANGED <<keyFrameV, key_file>>

\* std::ofstream key_file(key_file_path, out | trunc); exit(1) if not open
KeyOpen ==
  \E p \in Procs, opened \in BOOLEAN :
    /\ kproc[p].pc = "open"
    /\ IF opened
         THEN /\ key_file' = OpenTruncate(key_file)
              /\ kproc' = [kproc EXCEPT ![p].pc = "write"]
         ELSE /\ key_file' = key_file
              /\ kproc' = [kproc EXCEPT ![p].pc = "exited"]
    /\ UNCHANGED keyFrameV

\* key_file << private_key; key_file.close(): the text goes to the file at
\* the stream's offset 0
KeyWrite ==
  \E p \in Procs :
    /\ kproc[p].pc = "write"
    /\ key_file' = FlushDocument(key_file, kproc[p].key)
    /\ kproc' = [kproc EXCEPT ![p].pc = "connect"]
    /\ UNCHANGED keyFrameV

\* SQLDriverConnect with PRIV_KEY_FILE naming the file: the driver reads it
KeyConnect ==
  \E p \in Procs :
    /\ kproc[p].pc = "connect"
    /\ kproc' = [kproc EXCEPT ![p] = [@ EXCEPT !.pc = "done", !.seen = key_file.data]]
    /\ UNCHANGED <<keyFrameV, key_file>>

InitKey ==
  /\ Idle
  /\ meta = [t \in DriverTypes |-> AbsentFile]
  /\ meta0 = meta
  /\ values = <<>>
  /\ SuiteIdle
  /\ KeyIdle

NextKey == KeyArrive \/ KeyOpen \/ KeyWrite \/ KeyConnect

SpecKey == InitKey /\ [][NextKey]_vars

\* --------------------------------------------------------------------------
\* Properties of the harness process (Spec)
\* --------------------------------------------------------------------------

\* C1: with W warmup and N measured iterations, once both loops have run to
\* their end the executor has been invoked W times by the warmup and N times
\* by the measured loop (W+N in all), the sequence handed to the CSV writer
\* has exactly N records, each produced by a call after the W warmup calls,
\* and the CSV, when written, holds the header and the rows of exactly those
\* N records; with W = 0 the warmup phase makes no driver call.
C1_WarmupDiscarded ==
  LET loops_done ==
        \/ pc \in {"write_csv", "write_run_metadata_json", "disconnect",
                   "free_dbc", "free_env", "returned"}
        \/ pc = "exited" /\ exit_code = 0
  IN /\ (warmup_iterations = 0 => ~warmup_made_call)
     /\ loops_done =>
          /\ executor_calls.warmup = warmup_iterations
          /\ executor_calls.measure = iterations
          /\ Len(results) = iterations
          /\ \A k \in 1..Len(results) :
               /\ results[k].call > warmup_iterations
               /\ results[k].call <= warmup_iterations + iterations
     /\ csv.exists =>
          /\ csv.data = (IF variant = "put_get" THEN CsvResultsPutGet(results)
                         ELSE CsvResults(results))
          /\ Len(csv.data) = iterations + 1

C1_Witness ==
  /\ pc = "returned"
  /\ warmup_iterations = 1
  /\ iterations = 2
  /\ csv.exists
  /\ Len(csv.data) = 3
  /\ executor_calls = [warmup |-> 1, measure |-> 2]

\* C2: the k-th record of the measured sequence has iteration = k, whatever
\* the warmup count; the warmup calls are numbered 1, 2, ... on their own.
C2_IterationIndices ==
  /\ \A k \in 1..Len(results) : results[k].iteration = k
  /\ \A k \in 1..Len(warmup_indices) : warmup_indices[k] = k
  /\ Len(warmup_indices) <= warmup_iterations
  /\ Len(results) <= iterations

C2_Witness ==
  /\ warmup_iterations = 1
  /\ warmup_indices = <<1>>
  /\ Len(results) = 2
  /\ results[2].iteration = 2
  /\ results[2].call = 3

C5_StmtFreedOnEveryPath ==
  /\ (pc \in {"warmup_loop", "measure_loop"} /\ i > 1) => stmt = "freed"
  /\ (pc = "exited" /\ last_call.fn \in {"run_query", "run_put_get_query"}) =>
       stmt # "allocated"

\* C6 (as amended): on a failed driver call check_odbc_error requests the
\* records 1, 2, 3, ... in increasing order and prints each one returned; it
\* stops at the first answer that is not a success, SQL_NO_DATA or any other
\* status, so when k records are available and the driver ends the
\* enumeration with SQL_NO_DATA all k are printed before the process exits.
C6_DiagEnumeration ==
  LET by_check == pc = "exited" /\ diag_ret # "none"
  IN /\ \A k \in 1..Len(printed) : printed[k] = k
     /\ Len(printed) <= diag_avail
     /\ (pc = "diag" \/ by_check) => rec_num = Len(printed) + 1
     /\ pc = "diag" => diag_ret \in OkStatus \cup {"none"}
     /\ by_check => diag_ret \notin OkStatus
     /\ (by_check /\ diag_ret = "SQL_NO_DATA") => Len(printed) = diag_avail

C6_Witness ==
  /\ pc = "exited"
  /\ exit_code = 1
  /\ diag_ret = "SQL_NO_DATA"
  /\ diag_avail = 2
  /\ printed = <<1, 2>>

\* C6 as stated: the enumeration stops only when the driver answers
\* SQL_NO_DATA, so all the available records are printed before the exit.
C6_StopsOnlyOnNoData ==
  (pc = "exited" /\ diag_ret # "none") =>
    /\ diag_ret = "SQL_NO_DATA"
    /\ printed = [k \in 1..diag_avail |-> k]

\* C7: for a GET command, in warmup and measured iterations alike, the
\* directory the command names exists and is empty when SQLExecDirect is
\* issued, and after a successful SQLExecDirect holds only what that
\* iteration downloaded.
C7_GetTargetEmptyAtExec ==
  LET cmd == CommandText(sql_command)
      d == NamedPath(cmd)
      below(f) == {q \in f.dirs : IsPrefix(d, q) /\ q # d}
                    \cup {g.path : g \in {h \in f.files : IsPrefix(d, h.path)}}
  IN (/\ variant = "put_get"
      /\ IsGetCommand(cmd)
      /\ last_call = [fn |-> "run_put_get_query", call |-> "SQLExecDirect",
                      how |-> "check"]) =>
       /\ d \in fs_at_exec.dirs
       /\ below(fs_at_exec) = {}
       /\ \A g \in fs.files :
            IsPrefix(d, g.path) => g.by = [phase |-> phase, i |-> i]

\* C8: for a PUT command create_get_target_directory removes and creates
\* nothing: the filesystem it leaves is the one it found, and so is the
\* filesystem at SQLExecDirect.
C8_PutLeavesFilesystem ==
  (variant = "put_get" /\ IsPutCommand(CommandText(sql_command))) =>
    (fs = fs_before /\ fs_at_exec = fs_before)


\* --------------------------------------------------------------------------
\* Properties of write_run_metadata_json (SpecRuns, SpecRace)
\* --------------------------------------------------------------------------

C10_FirstWriterWins ==
  \A t \in DriverTypes :
    (meta0[t] = AbsentFile /\ first_writer[t] # 0) =>
      meta[t] = FileOf(MetaDocument(first_writer[t], mproc[first_writer[t]].len))

\* --------------------------------------------------------------------------
\* C11: when TEST_NAME, SQL_COMMAND or PARAMETERS_JSON is unset, or the
\* parameters name no account, no user or no private key, SQLDriverConnect is
\* never called: the process is at a step of main before the connection, inside
\* check_odbc_error for one of them, or has exited, and then with status 1.
\* --------------------------------------------------------------------------
ConfigError ==
  \/ ~env.TEST_NAME.set
  \/ ~env.SQL_COMMAND.set
  \/ ~env.PARAMETERS_JSON.set
  \/ env.PARAMETERS_JSON.account = "none"
  \/ ~env.PARAMETERS_JSON.user
  \/ env.PARAMETERS_JSON.key = "none"

BeforeConnect ==
  /\ phase = "connect"
  /\ last_call.call # "SQLDriverConnect"
  /\ pc \in {"get_test_name", "get_sql_command", "get_env_ints",
             "parse_parameters_json", "parse_setup_queries",
             "create_environment", "set_env_attr", "alloc_dbc",
             "get_connection_string", "check", "diag", "exited"}
  /\ (pc \in {"check", "diag"} =>
        /\ last_call.call \in {"SQLAllocHandle", "SQLSetEnvAttr"}
        /\ cont \in {"set_env_attr", "alloc_dbc", "get_connection_string"})
  /\ conn_string = <<>>
  /\ key_file = AbsentFile
  /\ filename = <<>>
  /\ completion = <<>>
  /\ exit_code \in {-1, 1}
  /\ (pc = "exited" <=> exit_code = 1)

C11_ConfigErrorFatal == ConfigError => BeforeConnect

\* the private key alone is missing: the environment and the connection
\* handles were allocated, and the process exited without connecting
C11_Witness ==
  /\ env.TEST_NAME.set /\ env.SQL_COMMAND.set /\ env.PARAMETERS_JSON.set
  /\ env.PARAMETERS_JSON.account # "none"
  /\ env.PARAMETERS_JSON.user
  /\ env.PARAMETERS_JSON.key = "none"
  /\ last_call = [fn |-> "create_connection", call |-> "SQLAllocHandle", how |-> "check"]
  /\ pc = "exited"
  /\ exit_code = 1

\* --------------------------------------------------------------------------
\* C12: get_env_int gives the default when the variable is unset or its
\* value is not a number, and the number itself when it is one: once main
\* has read them, iterations is 1 for an unset or non-numeric
\* PERF_ITERATIONS, warmup_iterations is 0 for an unset or non-numeric
\* PERF_WARMUP_ITERATIONS, and each is the numeral's value otherwise.
\* --------------------------------------------------------------------------
IsNumeral(s) == s # <<>> /\ \A k \in 1..Len(s) : IsDigit(s[k])

DefaultOrGiven(var, default_value, got) ==
  IF ~var.set \/ ~IsNumeral(var.value)
  THEN got = default_value
  ELSE LET a == Accumulate(var.value, 1) IN a.fits /\ got = a.v

C12_EnvIntDefaults ==
  pc = "parse_parameters_json" =>
    /\ DefaultOrGiven(env.PERF_ITERATIONS, 1, iterations)
    /\ DefaultOrGiven(env.PERF_WARMUP_ITERATIONS, 0, warmup_iterations)

\* --------------------------------------------------------------------------
\* C13: parse_parameters_json returns a mapping only for a PARAMETERS_JSON
\* that is set and holds a well-formed JSON object: main is past its call
\* only in such an environment, and has exited with status 1 otherwise.
\* --------------------------------------------------------------------------
C13_MappingOnlyForJsonObject ==
  /\ (pc = "parse_setup_queries" =>
        env.PARAMETERS_JSON.set /\ IsJsonObject(env.PARAMETERS_JSON))
  /\ (env.PARAMETERS_JSON.set /\ ~IsJsonObject(env.PARAMETERS_JSON) =>
        pc \in {"get_test_name", "get_sql_command", "get_env_ints",
                "parse_parameters_json", "exited"})

\* --------------------------------------------------------------------------
\* C14: get_connection_string has one authentication mode, key-pair.  A
\* connection string is built only from parameters with an account, a user
\* and a private key; it carries AUTHENTICATOR=SNOWFLAKE_JWT and
\* PRIV_KEY_FILE naming the file the key lines were written to, joined by
\* newlines, and no password or token, whether or not a password was given.
\* --------------------------------------------------------------------------
HasSegment(cs, key, value) == \E j \in 1..Len(cs) : cs[j] = [k |-> key, v |-> value]

VersionPcs ==
  {"get_driver_version", "srv_alloc", "srv_exec", "srv_fetch", "srv_getdata", "srv_free"}

VersionStep ==
  /\ pc' \in VersionPcs \cup {"execute_setup_queries"}
  /\ exit_code' = -1
  /\ (pc = "get_driver_version" /\ ret' \notin OkStatus => driver_version' = "UNKNOWN")
  /\ (pc \in {"srv_alloc", "srv_exec", "srv_fetch", "srv_getdata"} /\ ret' \notin OkStatus =>
        /\ server_version' = "UNKNOWN"
        /\ pc' \in {"srv_free", "execute_setup_queries"})
  /\ (pc' = "execute_setup_queries" =>
        IF pc = "srv_alloc"
        THEN ret' \notin OkStatus /\ stmt' = "null"
        ELSE pc = "srv_free" /\ stmt' = "freed")
  /\ (stmt' = "allocated" => pc' \in {"srv_exec", "srv_fetch", "srv_getdata", "srv_free"})

C15_VersionsBestEffort == [][(pc \in VersionPcs) => VersionStep]_vars

\* SQLGetInfo and SQLFetch failed, and main is about to run the setup queries
C15_Witness ==
  /\ variant = "main"
  /\ pc = "execute_setup_queries"
  /\ driver_version = "UNKNOWN"
  /\ server_version = "UNKNOWN"
  /\ stmt = "freed"
  /\ exit_code = -1

\* --------------------------------------------------------------------------
\* C16: what calculate_stats returns is the reference: 0, 0, 0 for the empty
\* vector; otherwise the smallest and the largest element and, as median, the
\* middle element by rank for an odd size and the mean of the two central
\* elements by rank for an even one.  The medians print_statistics computes
\* from the query times and from the fetch times are calculate_stats's
\* medians of those vectors.
\* --------------------------------------------------------------------------
\* the k-th smallest element of vs, by counting
Kth(vs, k) ==
  CHOOSE v \in {vs[j] : j \in 1..Len(vs)} :
    /\ Cardinality({j \in 1..Len(vs) : vs[j] < v}) < k
    /\ Cardinality({j \in 1..Len(vs) : vs[j] <= v}) >= k

ReferenceStats(vs) ==
  LET n == Len(vs)
  IN IF n = 0 THEN [median |-> 0, min |-> 0, max |-> 0]
     ELSE [median |-> IF n % 2 = 1 THEN Kth(vs, (n + 1) \div 2)
                      ELSE (Kth(vs, n \div 2) + Kth(vs, n \div 2 + 1)) \div 2,
           min |-> Kth(vs, 1),
           max |-> Kth(vs, n)]

C16_StatsMatchReference ==
  /\ (stats # NoStats => stats = ReferenceStats(values))
  /\ (summary # NoSummary =>
        LET rs == TimedResults(values)
        IN /\ summary.query.median =
                CalculateStats([k \in 1..Len(rs) |-> rs[k].query_time_s]).median
           /\ summary.fetch.median =
                CalculateStats([k \in 1..Len(rs) |-> rs[k].fetch_time_s]).median)

\* four durations out of order, the two central ones different
C16_Witness ==
  /\ values = <<4, 0, 2, 0>>
  /\ stats = [median |-> 1, min |-> 0, max |-> 4]
  /\ summary.query.median = 1
  /\ summary.fetch.median = 1

\* --------------------------------------------------------------------------
\* C17: a call of calculate_stats on a non-empty vector returns
\* min <= median <= max, returns the same for every permutation of the
\* vector, and leaves the caller's vector as it was.
\* --------------------------------------------------------------------------
PermutationsOf(vs) ==
  {[k \in 1..Len(vs) |-> vs[p[k]]] : p \in Permutations(1..Len(vs))}

C17_OrderedAndPermutationInvariant ==
  [][(stats = NoStats /\ stats' # NoStats /\ values # <<>>) =>
       /\ stats'.min <= stats'.median
       /\ stats'.median <= stats'.max
       /\ \A ws \in PermutationsOf(values) : CalculateStats(ws) = stats'
       /\ values' = values]_vars

\* three durations out of order, and their statistics
C17_Witness ==
  /\ values = <<4, 0, 2>>
  /\ stats = [median |-> 2, min |-> 0, max |-> 4]

\* --------------------------------------------------------------------------
\* C18: the file write_csv_results has written holds the header
\* timestamp,query_s,fetch_s and then one line per result, the k-th line for
\* the k-th result: its timestamp, its query duration and its fetch duration,
\* comma-separated, each duration with exactly six digits after the point and
\* reading back as the duration.  write_csv_results_put_get writes the header
\* timestamp,query_s and lines of timestamp and query duration.
\* --------------------------------------------------------------------------
\* the fields of a line, split at its commas
RECURSIVE SplitOnComma(_)
SplitOnComma(line) ==
  IF \A k \in 1..Len(line) : line[k] # ","
  THEN <<line>>
  ELSE LET at == CHOOSE k \in 1..Len(line) :
                   line[k] = "," /\ \A j \in 1..(k - 1) : line[j] # ","
       IN <<SubSeq(line, 1, at - 1)>> \o SplitOnComma(SubSeq(line, at + 1, Len(line)))

\* the number a string of digits reads as
RECURSIVE TextNat(_)
TextNat(ds) ==
  IF ds = <<>> THEN 0
  ELSE TextNat(SubSeq(ds, 1, Len(ds) - 1)) * 10 + DigitValue(ds[Len(ds)])

\* text is us microseconds in seconds, with six decimal places
ReadsAsFixed6(text, us) ==
  /\ Len(text) >= 8
  /\ text[Len(text) - 6] = "."
  /\ LET whole == SubSeq(text, 1, Len(text) - 7)
         frac == SubSeq(text, Len(text) - 5, Len(text))
     IN /\ IsNumeral(whole)
        /\ IsNumeral(frac)
        /\ TextNat(whole) * 1000000 + TextNat(frac) = us

RowOf(line, r, with_fetch) ==
  LET fields == SplitOnComma(line)
  IN /\ Len(fields) = (IF with_fetch THEN 3 ELSE 2)
     /\ IsNumeral(fields[1])
     /\ TextNat(fields[1]) = r.timestamp
     /\ ReadsAsFixed6(fields[2], r.query_time_s)
     /\ (with_fetch => ReadsAsFixed6(fields[3], r.fetch_time_s))

C18_CsvHeaderAndRows ==
  csv.exists =>
    /\ Len(csv.data) = Len(results) + 1
    /\ csv.data[1] =
         (IF variant = "put_get"
          THEN <<"t","i","m","e","s","t","a","m","p",",","q","u","e","r","y","_","s">>
          ELSE <<"t","i","m","e","s","t","a","m","p",",","q","u","e","r","y","_","s",",",
                 "f","e","t","c","h","_","s">>)
    /\ \A k \in 1..Len(results) :
         RowOf(csv.data[k + 1], results[k], variant # "put_get")

\* two results of a query run, written: 7,0.000005,0.123456 then
\* 10,1.500000,0.000000
C18_Witness ==
  /\ variant = "fetch"
  /\ Len(results) = 2
  /\ csv.exists
  /\ csv.data[2] = <<"7",",","0",".","0","0","0","0","0","5",",",
                     "0",".","1","2","3","4","5","6">>
  /\ csv.data[3] = <<"1","0",",","1",".","5","0","0","0","0","0",",",
                     "0",".","0","0","0","0","0","0">>

\* --------------------------------------------------------------------------
\* C19: the results path a run has built is
\* /results/<test_name>_odbc_<driver_type>_<timestamp>.csv, generate_results_filename
\* and main's own construction give the same path for the same three inputs,
\* and no run of the same test name with another driver type is given that
\* path, whatever its timestamp.
\* --------------------------------------------------------------------------
C19_ResultsPath ==
  filename # <<>> =>
    LET test_name == env.TEST_NAME.value
        mine == DriverTypeText(driver_type)
    IN /\ filename =
            <<"/","r","e","s","u","l","t","s","/">> \o test_name
              \o <<"_","o","d","b","c","_">> \o mine \o <<"_">> \o IntText(now)
              \o <<".","c","s","v">>
       /\ GenerateResultsFilename(test_name, mine, now) = filename
       /\ MainResultsFilename(test_name, mine, now) = filename
       /\ \A dt \in DriverTypes \ {driver_type}, t \in Timestamps :
            /\ GenerateResultsFilename(test_name, DriverTypeText(dt), t) # filename
            /\ MainResultsFilename(test_name, DriverTypeText(dt), t) # filename

\* --------------------------------------------------------------------------
\* C20: the statements execute_setup_queries has executed are the first ones
\* of the list, in its order, each once; a statement handle is allocated only
\* when the one before it has been freed; every statement has been executed
\* before the first executor call and in every later phase; a setup call
\* that failed its check leads only to the exit with status 1, with no
\* iteration run; with an empty list execute_setup_queries makes no driver
\* call.
\* --------------------------------------------------------------------------
SetupFailed ==
  /\ phase = "setup"
  /\ last_call.fn = "execute_setup_queries"
  /\ last_call.how = "check"
  /\ ret_checked
  /\ CheckFailed(ret)

C20_SetupOnceInOrder ==
  /\ Len(setup_executed) <= Len(setup_queries)
  /\ setup_executed = SubSeq(setup_queries, 1, Len(setup_executed))
  /\ (pc = "setup_alloc" => stmt # "allocated" /\ Len(setup_executed) = i)
  /\ (pc = "setup_free" => stmt = "allocated" /\ Len(setup_executed) = i + 1)
  /\ (phase \in {"warmup", "measure", "persist", "cleanup"} =>
        setup_executed = setup_queries)
  /\ (executor_calls.warmup + executor_calls.measure > 0 =>
        setup_executed = setup_queries)
  /\ (SetupFailed =>
        /\ pc \in {"diag", "exited"}
        /\ (pc = "exited" => exit_code = 1)
        /\ executor_calls = [warmup |-> 0, measure |-> 0])
  /\ (setup_queries = <<>> => last_call.fn # "execute_setup_queries")

\* two setup statements, both executed in order before the run's first
\* measured iteration
C20_Witness ==
  /\ variant = "main"
  /\ Len(setup_queries) = 2
  /\ setup_queries[1] # setup_queries[2]
  /\ setup_executed = setup_queries
  /\ phase = "measure"
  /\ executor_calls.measure = 1

\* --------------------------------------------------------------------------
\* C21: parse_setup_queries returns an empty list when SETUP_QUERIES is unset,
\* and otherwise the strings of the JSON array: one entry per element, in
\* array order, with the element's text.
\* --------------------------------------------------------------------------
C21_SetupQueriesMirrorArray ==
  pc = "create_environment" =>
    /\ ~env.SETUP_QUERIES.set => setup_queries = <<>>
    /\ \A arr \in SetupArrays :
         env.SETUP_QUERIES = SetTo(ArrayJson(arr)) => setup_queries = arr

\* the same for the lists that hold no empty string and no quote
C21_PlainArrays ==
  pc = "create_environment" =>
    /\ ~env.SETUP_QUERIES.set => setup_queries = <<>>
    /\ \A arr \in SetupArrays :
         (\A k \in 1..Len(arr) : arr[k] \in {<<"a">>, <<"b">>})
            /\ env.SETUP_QUERIES = SetTo(ArrayJson(arr)) => setup_queries = arr

\* --------------------------------------------------------------------------
\* C22: for each of host, database, schema, warehouse and role that is
\* missing from PARAMETERS_JSON, the mapping parse_parameters_json returns
\* has no entry of that name, and the connection string is built all the
\* same and holds no KEY=value segment of that field.
\* --------------------------------------------------------------------------
SegmentKeyOf(name) ==
  IF name = "host" THEN "SERVER"
  ELSE IF name = "database" THEN "DATABASE"
  ELSE IF name = "schema" THEN "SCHEMA"
  ELSE IF name = "warehouse" THEN "WAREHOUSE"
  ELSE "ROLE"

MissingFrom(d) ==
  (OptionalNames \ d.optional) \cup (IF d.host THEN {} ELSE {"host"})

AbsenceIsNoValue(names) ==
  /\ pc = "parse_setup_queries" =>
       \A n \in names \cap MissingFrom(env.PARAMETERS_JSON) : n \notin DOMAIN params
  /\ conn_string # <<>> =>
       \A n \in names \cap MissingFrom(env.PARAMETERS_JSON) :
         \A j \in 1..Len(conn_string) : conn_string[j].k # SegmentKeyOf(n)

C22_AbsentOptionalsOmitted == AbsenceIsNoValue(OptionalNames \cup {"host"})

\* the same for the four fields connection.cpp:103-106 test before writing
C22_GuardedOptionalsOmitted == AbsenceIsNoValue(OptionalNames)

\* the string is built with all five of them missing
C22_AllMissingBuilt ==
  /\ MissingFrom(env.PARAMETERS_JSON) = OptionalNames \cup {"host"}
  /\ pc = "driver_connect"
  /\ Len(conn_string) = 6

\* --------------------------------------------------------------------------
\* C23: every record of the sequence run_test_iterations returns carries its
\* iteration index and a wall-clock timestamp taken during its iteration,
\* assigned by run_query before the record is appended, so that the
\* timestamp column of the CSV is the wall-clock time of each iteration;
\* this for the run_query main links as for the one of query_execution.cpp.
\* --------------------------------------------------------------------------
StampedInIteration(rs) ==
  \A k \in 1..Len(rs) :
    /\ rs[k].iteration = k
    /\ rs[k].timestamp = ClockAt(rs[k].call)

C23_TimestampOfIteration == StampedInIteration(results)

\* the same for execute_fetch_test and execute_put_get_test alone
C23_TimestampOfIterationElsewhere ==
  variant # "main" => StampedInIteration(results)

\* --------------------------------------------------------------------------
\* C24: run_query calls SQLFetch until the first SQL_NO_DATA and then stops.
\* When its loop has ended, row_count is the number of SQLFetch calls that
\* succeeded, times 1024 in bulk-fetch mode whatever the last batch held;
\* the record appended carries that count.  A SQLFetch returning any other
\* status ends the process: the run goes to check_odbc_error's exit and
\* never back to the loop.
\* --------------------------------------------------------------------------
FetchedRows == fetch_calls.ok * (IF use_bulk_fetch THEN bulk_size ELSE 1)

AllocPcs == {"srv_alloc", "setup_alloc", "stmt_alloc"}

\* main is past its call of SQLDriverConnect: not at a step before it, not
\* at the check of an earlier call, and not stopped by its configuration
Connected ==
  /\ pc \notin {"get_test_name", "get_sql_command", "get_env_ints",
                "parse_parameters_json", "parse_setup_queries", "create_environment",
                "set_env_attr", "alloc_dbc", "get_connection_string", "driver_connect"}
  /\ ~(pc = "check" /\ last_call.fn \in {"create_environment", "create_connection"}
         /\ last_call.call # "SQLDriverConnect")
  /\ ~(pc = "exited" /\ exit_code = 1)

C25_OneConnectionOneStatement ==
  ~call_failed =>
    /\ open_stmts = (IF stmt = "allocated" THEN 1 ELSE 0)
    /\ (pc \in AllocPcs => open_stmts = 0)
    /\ (pc \in {"write_csv", "disconnect", "free_dbc", "free_env", "exited"} =>
          open_stmts = 0)
    /\ (variant = "main" =>
          /\ connects = (IF Connected THEN 1 ELSE 0)
          /\ (open_stmts > 0 \/ pc \in AllocPcs => connects = 1)
          /\ (pc = "stmt_alloc" =>
                executor_calls.warmup + executor_calls.measure
                  = (IF phase = "warmup" THEN i ELSE warmup_iterations + i)))

\* main is about to allocate the statement of its second measured iteration
C25_Witness ==
  /\ variant = "main" /\ ~call_failed
  /\ pc = "stmt_alloc" /\ phase = "measure" /\ i = 2
  /\ connects = 1 /\ open_stmts = 0 /\ stmt = "freed"
  /\ Len(results) = 1

\* --------------------------------------------------------------------------
\* Properties of the test suite's get_diag_rec (SpecDiag)
\* --------------------------------------------------------------------------

\* C26: while get_diag_rec runs, its vector holds the driver's records
\* 1 .. recNumber-1 of the handle, in that order; it asks for no record past
\* the first SQL_NO_DATA; and once it has returned, the vector has one DiagRec
\* per record the driver holds, so that the test's size check passes exactly
\* when the failed connect left one record.
C26_OneDiagRecPerRecord ==
  /\ tpc \in {"get_diag_rec", "returned", "passed", "failed_size"} =>
       /\ Len(records) = recNumber - 1
       /\ recNumber <= Len(drv_diag) + 1
       /\ \A k \in 1..Len(records) : records[k] = DiagRecOf(drv_diag[k])
  /\ tpc \in {"returned", "passed", "failed_size"} =>
       /\ tret = "SQL_NO_DATA"
       /\ Len(records) = Len(drv_diag)
  /\ tpc = "passed" => Len(drv_diag) = 1
  /\ tpc = "failed_size" => Len(drv_diag) # 1

\* get_diag_rec has returned two records with different SQLSTATEs
C26_Witness ==
  /\ tpc = "failed_size"
  /\ Len(records) = 2
  /\ records[1].sqlState = "HY000"
  /\ records[2].sqlState = "28000"

\* the size check has passed
C26_WitnessPassed == tpc = "passed" /\ records[1].sqlState = "28000"

\* --------------------------------------------------------------------------
\* Properties of a run whose results file cannot be opened (Spec)
\* --------------------------------------------------------------------------
\* write_csv_results has been called and has left no file
CsvNotWritten == filename # <<>> /\ ~csv.exists

\* the run is over: main has returned or exited, the executor has returned
RunOver == pc \in {"exited", "returned"}

\* C27: once write_csv_results has been called without the results file
\* coming to exist, the process is not aborted: it goes on through the run
\* metadata and the statistics, and when it is over the completion line has
\* named the results path, the statistics of a non-empty result list have been
\* printed, and main's exit status is 0.
C27_CsvFailureNotFatal ==
  CsvNotWritten =>
    /\ exit_code \in {-1, 0}
    /\ RunOver =>
         /\ completion = filename
         /\ summary = SummaryOf(variant, results)
         /\ variant = "main" => exit_code = 0

\* the same, for the runs whose results directory exists or could be made
C27_OpenFailureNotFatal ==
  CsvNotWritten /\ exit_code # Aborted =>
    /\ exit_code \in {-1, 0}
    /\ RunOver =>
         /\ completion = filename
         /\ summary = SummaryOf(variant, results)
         /\ variant = "main" => exit_code = 0

\* main has exited with 0 although no results file was written, having
\* written the run metadata and printed the statistics and the completion line
C27_RunCompleted ==
  /\ variant = "main" /\ pc = "exited" /\ exit_code = 0
  /\ CsvNotWritten
  /\ meta[driver_type].exists /\ ~meta0[driver_type].exists
  /\ summary # NoSummary
  /\ completion = filename

\* the process ended inside open_csv_file
C27_Aborted == pc = "exited" /\ exit_code = Aborted /\ CsvNotWritten

\* --------------------------------------------------------------------------
\* Properties of the staged private key file (SpecKey)
\* --------------------------------------------------------------------------

\* C28: whenever the driver of a process has read the key file during that
\* process's SQLDriverConnect, what it read is the complete key text of that
\* process, whatever the other processes staging their keys at the same path
\* were doing.
C28_KeyCompleteWhenRead ==
  \A p \in Procs : kproc[p].pc = "done" => kproc[p].seen = kproc[p].key

\* the same for a process that is alone between its open and its connect
C28_KeyCompleteWhenAlone ==
  \A p \in Procs :
    kproc[p].pc = "done" /\ (\A q \in Procs \ {p} : kproc[q].pc = "idle") =>
      kproc[p].seen = kproc[p].key

\* the driver of a process has read an empty file, truncated by another
\* process holding the same key
C28_ReadTruncated ==
  \E p, q \in Procs :
    /\ p # q
    /\ kproc[p].pc = "done" /\ kproc[p].seen = <<>>
    /\ kproc[q].key = kproc[p].key

\* the driver of a process has read a mixture of two keys
C28_ReadMixed ==
  \E p \in Procs :
    /\ kproc[p].pc = "done"
    /\ kproc[p].seen = <<"a", "b">>

\* --------------------------------------------------------------------------
\* Properties of HandleWrapper (SpecWrappers)
\* --------------------------------------------------------------------------
\* the live wrappers holding handle h
Owners(h) == {w \in WrapperIds : wrappers[w].alive /\ wrappers[w].handle = h}

\* C30: after any sequence of constructions, move constructions and
\* destructions, every handle SQLAllocHandle gave out is either held by
\* exactly one live wrapper and has not been passed to SQLFreeHandle (so
\* getHandle of its owner is not a freed handle), or is held by none and has
\* been passed to SQLFreeHandle exactly once; every other live wrapper, the
\* moved-from ones, holds SQL_NULL_HANDLE.
C30_FreedOnceByLastOwner ==
  /\ \A h \in 1..Len(handles) :
       /\ handles[h].frees <= 1
       /\ Cardinality(Owners(h)) + handles[h].frees = 1
  /\ \A w \in WrapperIds :
       wrappers[w].alive =>
         \/ wrappers[w].handle = NullHandle
         \/ /\ wrappers[w].handle \in 1..Len(handles)
            /\ handles[wrappers[w].handle].type = wrappers[w].type

\* every handle has been given out: one was freed with its last owner, one is
\* still owned, and a moved-from wrapper is alive
C30_Witness ==
  /\ Len(handles) = MaxHandles
  /\ \E h \in 1..Len(handles) : handles[h].frees = 1 /\ ~handles[h].valid
  /\ \E h \in 1..Len(handles) : handles[h].frees = 0 /\ Owners(h) # {}
  /\ \E w \in WrapperIds : wrappers[w].alive /\ wrappers[w].handle = NullHandle

\* --------------------------------------------------------------------------
\* Properties of the release of handles (SpecTeardown)
\* --------------------------------------------------------------------------
\* the handles of the given type
HandlesOf(type) == {h \in 1..Len(handles) : handles[h].type = type}

\* main is past its SQLDisconnect on the way to return 0
MainPastDisconnect ==
  /\ variant = "main"
  /\ pc \in {"free_dbc", "free_env"} \/ (pc = "exited" /\ exit_code = 0)

\* C29: handles are released child before parent.  In the harness main, when
\* SQLDisconnect has been called no statement handle is allocated and not
\* freed, the call before SQLFreeHandle of the connection is SQLDisconnect and
\* the call before SQLFreeHandle of the environment is SQLFreeHandle of the
\* connection.  In the test suite, a connection that has been disconnected
\* has no statement left and every statement allocated from it has been freed
\* once; a connection handle that has been freed was connected before and
\* disconnected, or never connected; an environment handle that has been
\* freed has no connection left; and after a test that passed the driver
\* holds no handle, each one freed exactly once.
C29_ChildBeforeParent ==
  /\ MainPastDisconnect =>
       /\ stmt # "allocated"
       /\ open_stmts = 0
       /\ pc = "free_dbc" => last_call.call = "SQLDisconnect"
       /\ pc = "free_env" => last_call.call = "SQLFreeHandle DBC"
       /\ pc = "exited" => last_call.call = "SQLFreeHandle ENV"
  /\ \A d \in HandlesOf("DBC") :
       /\ handles[d].conn = "disconnected" =>
            \A s \in HandlesOf("STMT") :
              handles[s].parent = d => ~handles[s].valid /\ handles[s].frees = 1
       /\ handles[d].frees > 0 => handles[d].conn # "connected" /\ ~handles[d].valid
  /\ \A e \in HandlesOf("ENV") :
       handles[e].frees > 0 =>
         /\ ~handles[e].valid
         /\ \A d \in HandlesOf("DBC") :
              handles[d].parent = e => ~handles[d].valid /\ handles[d].frees = 1
  /\ tpc = "passed" =>
       \A h \in 1..Len(handles) :
         /\ ~handles[h].valid
         /\ handles[h].frees = 1
         /\ handles[h].type = "DBC" => handles[h].conn = "disconnected"

\* a test with a Schema and a statement has passed: six handles, all released
C29_Witness ==
  /\ tpc = "passed"
  /\ Len(handles) = 6
  /\ Cardinality(HandlesOf("STMT")) = 4

\* main has returned 0 after its three cleanup calls, every call of the run
\* having succeeded
C29_WitnessMain ==
  /\ variant = "main" /\ pc = "exited" /\ exit_code = 0
  /\ ~call_failed
  /\ last_call.call = "SQLFreeHandle ENV"
  /\ executor_calls.measure = 2

====
